---- MODULE Spec2Model ----
(***************************************************************************)
(* Generation orchestration and versioned state engine of CharSheet AI     *)
(* (src/App.tsx).  The React component is modelled as a state machine:     *)
(* every event handler runs synchronously up to its first await (one       *)
(* action), every await of the external collaborator is an entry of        *)
(* `pending`, and the code after the await is the action that resolves it. *)
(* Functional updates setAppState(prev => f(prev)) are applied in the      *)
(* order they are queued, so a handler's updates are composed as f2(f1(s)).*)
(* Values a handler reads from its closure (appState, referenceBalance,    *)
(* ...) are the values of the render in which it was invoked.              *)
(***************************************************************************)
EXTENDS Integers, Sequences, FiniteSets, TLC

\* ---------------------------------------------------------------------------
\* Values
\* ---------------------------------------------------------------------------

\* null (string | null image fields)
Null == 0

\* App.tsx:133
HISTORY_LIMIT == 10

\* types.ts ViewType
ViewType == {"FRONT", "SEMI_SIDE", "SIDE", "BACK"}

\* order of [FRONT, SEMI_SIDE, SIDE, BACK] as written in generatePart
AllViews == <<"FRONT", "SEMI_SIDE", "SIDE", "BACK">>

\* types.ts PartType, cut down to two members of the enum
PartType == {"FACE", "HAIR"}

\* image payloads (data URIs), one range per provenance
UploadImg == 1
GenImgs == {2}
RefImgs == {30, 31}

\* values of Date.now(), the wall clock, used as modification ids
Timestamps == {1, 2}
OrigCropImg == 20
ViewCropImg(v) == CASE v = "FRONT" -> 11 [] v = "SEMI_SIDE" -> 12
                    [] v = "SIDE" -> 13 [] OTHER -> 14

\* ---------------------------------------------------------------------------
\* Bounds of the exploration
\* ---------------------------------------------------------------------------
MaxCalls == 2
MaxMods == 1
MaxRefs == 2
MaxRecordings == 11
MaxLedger == 3
MaxPipelineCalls == 5
MaxCustom == 2

VARIABLES
    appState,          \* useState<AppState>
    processingViews,   \* useState<ViewType[]>
    upscalingViews,    \* useState<ViewType[]>
    upscalingParts,    \* useState<string[]>
    referenceBalance,  \* useState<number>(5)
    isSingleViewMode,  \* useState(false)
    isProcessing,      \* useState(false)
    selectedParts,     \* useState<string[]>
    sheetsRun,         \* position and closure of a handleGenerateSheets run
    viewsRun,          \* position and closure of a handleGenerateViews run
    errorMsg,          \* useState<string | null>(null)
    globalProgress,    \* useState(0)
    pending,           \* collaborator calls awaiting their result
    calls,             \* number of collaborator invocations so far
    lastOp,            \* history variable: the last handler and its outcome
    recLog,            \* history variable: snapshots of a run of recordings
    stored,            \* history variable: images ever held by a view's snapshots
    rt                 \* history variable: round-trip tracker per entity

vars == <<appState, processingViews, upscalingViews, upscalingParts,
          referenceBalance, isSingleViewMode, isProcessing, selectedParts,
          sheetsRun, viewsRun, errorMsg, globalProgress, pending, calls, lastOp,
          recLog, stored, rt>>

Entities == ViewType \cup PartType

\* ---------------------------------------------------------------------------
\* Array helpers
\* ---------------------------------------------------------------------------
Range(s) == {s[i] : i \in DOMAIN s}

\* Array.prototype.includes
Includes(s, x) == \E i \in DOMAIN s : s[i] = x

\* prev.filter(p => p !== x)
Without(s, x) == SelectSeq(s, LAMBDA y : y # x)

\* arr.slice(arr.length - n) for n <= arr.length
LastN(s, n) == IF Len(s) > n THEN SubSeq(s, Len(s) - n + 1, Len(s)) ELSE s

\* arr.slice(0, arr.length - 1)
Front(s) == SubSeq(s, 1, Len(s) - 1)

Last(s) == s[Len(s)]

RemoveAt(s, i) == SubSeq(s, 1, i - 1) \o SubSeq(s, i + 1, Len(s))

\* the members of set S in the order of sequence ord
RECURSIVE InOrder(_, _)
InOrder(ord, S) ==
    IF ord = <<>> THEN <<>>
    ELSE (IF Head(ord) \in S THEN <<Head(ord)>> ELSE <<>>) \o InOrder(Tail(ord), S)

PartOrder == <<"FACE", "HAIR">>

\* ---------------------------------------------------------------------------
\* Initial application state
\* ---------------------------------------------------------------------------
EmptyHistory == [undoStack |-> <<>>, redoStack |-> <<>>]

INITIAL_VIEW_STATE ==
    [originalImage |-> Null, userUploadedImage |-> Null, generatedImage |-> Null,
     parts |-> [p \in PartType |-> Null], modifications |-> <<>>,
     history |-> EmptyHistory]

InitialSheet ==
    [imgUrl |-> Null, isLoading |-> FALSE, modifications |-> <<>>,
     history |-> EmptyHistory]

getInitialAppState ==
    [views |-> [v \in ViewType |-> INITIAL_VIEW_STATE],
     generatedSheets |-> [p \in PartType |-> InitialSheet],
     manualReferences |-> [p \in PartType |-> <<>>],
     originalParts |-> [p \in PartType |-> Null],
     colorPalette |-> <<>>,
     customParts |-> <<>>,
     globalStylePrompt |-> ""]

\* ---------------------------------------------------------------------------
\* Local history management
\* ---------------------------------------------------------------------------
ViewHistoryItem(viewData) ==
    [originalImage |-> viewData.originalImage,
     generatedImage |-> viewData.generatedImage,
     modifications |-> viewData.modifications]

PartHistoryItem(sheet) ==
    [imgUrl |-> sheet.imgUrl, modifications |-> sheet.modifications]

\* faulty variant: a full stack keeps its oldest entries and drops the new one
PushBoundedEvictNewest(undoStack, newItem) ==
    IF Len(undoStack) >= HISTORY_LIMIT THEN undoStack ELSE Append(undoStack, newItem)

PushBounded(undoStack, newItem) ==
    LET newUndo == Append(undoStack, newItem)
    IN  IF Len(newUndo) > HISTORY_LIMIT
        THEN SubSeq(newUndo, Len(newUndo) - HISTORY_LIMIT + 1, Len(newUndo))
        ELSE newUndo

recordViewHistory(prev, view) ==
    LET viewData == prev.views[view]
    IN  [prev EXCEPT !.views[view].history =
            [undoStack |-> PushBounded(viewData.history.undoStack, ViewHistoryItem(viewData)),
             redoStack |-> <<>>]]

\* faulty variant: the redoStack survives a recording
recordPartHistoryKeepRedo(prev, part) ==
    LET sheet == prev.generatedSheets[part]
    IN  [prev EXCEPT !.generatedSheets[part].history.undoStack =
            PushBounded(sheet.history.undoStack, PartHistoryItem(sheet))]

recordPartHistory(prev, part) ==
    LET sheet == prev.generatedSheets[part]
    IN  [prev EXCEPT !.generatedSheets[part].history =
            [undoStack |-> PushBounded(sheet.history.undoStack, PartHistoryItem(sheet)),
             redoStack |-> <<>>]]

\* faulty variant: undo also takes the detected parts back to none
viewUndoResetsParts(prev, view) ==
    LET viewData == prev.views[view]
        undoStack == viewData.history.undoStack
    IN  IF Len(undoStack) = 0 THEN prev
        ELSE [prev EXCEPT !.views[view] =
                [viewData EXCEPT
                    !.originalImage = Last(undoStack).originalImage,
                    !.generatedImage = Last(undoStack).generatedImage,
                    !.modifications = Last(undoStack).modifications,
                    !.parts = [p \in DOMAIN @ |-> Null],
                    !.history = [undoStack |-> Front(undoStack),
                                 redoStack |-> Append(viewData.history.redoStack,
                                                      ViewHistoryItem(viewData))]]]

viewUndo(prev, view) ==
    LET viewData == prev.views[view]
        undoStack == viewData.history.undoStack
    IN  IF Len(undoStack) = 0 THEN prev
        ELSE LET previousState == Last(undoStack)
             IN  [prev EXCEPT !.views[view] =
                    [viewData EXCEPT
                        !.originalImage = previousState.originalImage,
                        !.generatedImage = previousState.generatedImage,
                        !.modifications = previousState.modifications,
                        !.history = [undoStack |-> Front(undoStack),
                                     redoStack |-> Append(viewData.history.redoStack,
                                                          ViewHistoryItem(viewData))]]]

viewRedo(prev, view) ==
    LET viewData == prev.views[view]
        redoStack == viewData.history.redoStack
    IN  IF Len(redoStack) = 0 THEN prev
        ELSE LET nextState == Last(redoStack)
             IN  [prev EXCEPT !.views[view] =
                    [viewData EXCEPT
                        !.originalImage = nextState.originalImage,
                        !.generatedImage = nextState.generatedImage,
                        !.modifications = nextState.modifications,
                        !.history = [undoStack |-> Append(viewData.history.undoStack,
                                                          ViewHistoryItem(viewData)),
                                     redoStack |-> Front(redoStack)]]]

\* faulty variant: the updater rebuilds the other sheets as not loading
partUndoSettlesOthers(prev, part) ==
    LET sheet == prev.generatedSheets[part]
        undoStack == sheet.history.undoStack
    IN  IF Len(undoStack) = 0 THEN prev
        ELSE [prev EXCEPT !.generatedSheets =
                [q \in DOMAIN @ |->
                    IF q = part
                    THEN [sheet EXCEPT
                            !.imgUrl = Last(undoStack).imgUrl,
                            !.modifications = Last(undoStack).modifications,
                            !.history = [undoStack |-> Front(undoStack),
                                         redoStack |-> Append(sheet.history.redoStack,
                                                              PartHistoryItem(sheet))]]
                    ELSE [@[q] EXCEPT !.isLoading = FALSE]]]

\* faulty variant: undo restores the image but not the ledger
partUndoDropsLedger(prev, part) ==
    LET sheet == prev.generatedSheets[part]
        undoStack == sheet.history.undoStack
    IN  IF Len(undoStack) = 0 THEN prev
        ELSE [prev EXCEPT !.generatedSheets[part] =
                [sheet EXCEPT
                    !.imgUrl = Last(undoStack).imgUrl,
                    !.history = [undoStack |-> Front(undoStack),
                                 redoStack |-> Append(sheet.history.redoStack,
                                                      PartHistoryItem(sheet))]]]

\* faulty variant: undo also ends the loading state of the sheet
partUndoClearsLoading(prev, part) ==
    LET sheet == prev.generatedSheets[part]
        undoStack == sheet.history.undoStack
    IN  IF Len(undoStack) = 0 THEN prev
        ELSE [prev EXCEPT !.generatedSheets[part] =
                [sheet EXCEPT
                    !.imgUrl = Last(undoStack).imgUrl,
                    !.modifications = Last(undoStack).modifications,
                    !.isLoading = FALSE,
                    !.history = [undoStack |-> Front(undoStack),
                                 redoStack |-> Append(sheet.history.redoStack,
                                                      PartHistoryItem(sheet))]]]

partUndo(prev, part) ==
    LET sheet == prev.generatedSheets[part]
        undoStack == sheet.history.undoStack
    IN  IF Len(undoStack) = 0 THEN prev
        ELSE LET previousState == Last(undoStack)
             IN  [prev EXCEPT !.generatedSheets[part] =
                    [sheet EXCEPT
                        !.imgUrl = previousState.imgUrl,
                        !.modifications = previousState.modifications,
                        !.history = [undoStack |-> Front(undoStack),
                                     redoStack |-> Append(sheet.history.redoStack,
                                                          PartHistoryItem(sheet))]]]

\* faulty variant: redo with nothing to restore still pushes the current state
partRedoUnguarded(prev, part) ==
    LET sheet == prev.generatedSheets[part]
        redoStack == sheet.history.redoStack
    IN  IF Len(redoStack) = 0
        THEN [prev EXCEPT !.generatedSheets[part].history.undoStack =
                Append(@, PartHistoryItem(sheet))]
        ELSE [prev EXCEPT !.generatedSheets[part] =
                [sheet EXCEPT
                    !.imgUrl = Last(redoStack).imgUrl,
                    !.modifications = Last(redoStack).modifications,
                    !.history = [undoStack |-> Append(sheet.history.undoStack,
                                                      PartHistoryItem(sheet)),
                                 redoStack |-> Front(redoStack)]]]

partRedo(prev, part) ==
    LET sheet == prev.generatedSheets[part]
        redoStack == sheet.history.redoStack
    IN  IF Len(redoStack) = 0 THEN prev
        ELSE LET nextState == Last(redoStack)
             IN  [prev EXCEPT !.generatedSheets[part] =
                    [sheet EXCEPT
                        !.imgUrl = nextState.imgUrl,
                        !.modifications = nextState.modifications,
                        !.history = [undoStack |-> Append(sheet.history.undoStack,
                                                          PartHistoryItem(sheet)),
                                     redoStack |-> Front(redoStack)]]]

\* faulty variant: the result also replaces the user's upload
updateViewStateOverwritesUpload(prev, view, originalImage, generatedImage) ==
    [prev EXCEPT !.views[view].originalImage = originalImage,
                 !.views[view].generatedImage = generatedImage,
                 !.views[view].userUploadedImage = generatedImage]

updateViewState(prev, view, originalImage, generatedImage) ==
    [prev EXCEPT !.views[view].originalImage = originalImage,
                 !.views[view].generatedImage = generatedImage]

\* faulty variant: the upload is stored as userUploadedImage only
uploadViewKeepsOriginal(prev, view, base64) ==
    [prev EXCEPT !.views[view].userUploadedImage = base64,
                 !.views[view].parts = INITIAL_VIEW_STATE.parts]

\* handleUpload as a state update
uploadView(prev, view, base64) ==
    [prev EXCEPT !.views[view].originalImage = base64,
                 !.views[view].userUploadedImage = base64,
                 !.views[view].parts = INITIAL_VIEW_STATE.parts]

\* ---------------------------------------------------------------------------
\* History variables (not program state)
\* ---------------------------------------------------------------------------
Visible(st, e) ==
    IF e \in ViewType THEN ViewHistoryItem(st.views[e])
    ELSE PartHistoryItem(st.generatedSheets[e])

UndoStack(st, e) ==
    IF e \in ViewType THEN st.views[e].history.undoStack
    ELSE st.generatedSheets[e].history.undoStack

RedoStack(st, e) ==
    IF e \in ViewType THEN st.views[e].history.redoStack
    ELSE st.generatedSheets[e].history.redoStack

HasPending(e) == \E i \in DOMAIN pending : pending[i].target = e

\* What the last handler did, as far as a later state cannot tell: whether
\* it was an undo or a redo, rejected = the ids it turned away (in flight; for
\* undo and redo: nothing to restore), short = the parts whose sources
\* resolved empty, hadRedo = the ids it recorded whose redoStack was not
\* empty.  Any other step leaves no mark.
UndoNames == {"handlePartUndo", "handleBatchUndoParts", "handleViewUndo"}
RedoNames == {"handlePartRedo", "handleBatchRedoParts", "handleViewRedo"}

Op(name, ids, rejected, hadRedo, short) ==
    IF name \in UndoNames
    THEN [tag |-> IF rejected = {} THEN "undo"
                  ELSE IF rejected = ids THEN "undoEmpty" ELSE "undoPartly",
          ids |-> rejected]
    ELSE IF name \in RedoNames
    THEN [tag |-> IF rejected = {} THEN "redo"
                  ELSE IF rejected = ids THEN "redoEmpty" ELSE "redoPartly",
          ids |-> rejected]
    ELSE IF rejected # {} THEN [tag |-> "rejected", ids |-> rejected]
    ELSE IF short # {} THEN [tag |-> "short", ids |-> short]
    ELSE IF hadRedo # {} THEN [tag |-> "cleared", ids |-> hadRedo]
    ELSE [tag |-> "", ids |-> {}]

RtIdle == [phase |-> "idle", s0 |-> <<>>, s1 |-> <<>>]

\* handleClear as a state update
clearView(prev, view) == [prev EXCEPT !.views[view] = INITIAL_VIEW_STATE]

\* the updater of handleSwapViewImage
swapViewImage(prev, view, type) ==
    LET viewData == prev.views[view]
        targetImage == IF type = "user" THEN viewData.userUploadedImage
                       ELSE viewData.generatedImage
    IN  IF targetImage = Null THEN prev
        ELSE [prev EXCEPT !.views[view].originalImage = targetImage]

\* the originalImage values of the snapshots on the stacks of view v
SnapshotImages(st, v) ==
    {st.views[v].history.undoStack[k].originalImage :
        k \in DOMAIN st.views[v].history.undoStack}
    \cup {st.views[v].history.redoStack[k].originalImage :
        k \in DOMAIN st.views[v].history.redoStack}

\* stored gains the images of the snapshots the step left on the stacks
TrackStored == stored' = [v \in ViewType |-> stored[v] \cup SnapshotImages(appState', v)]

HadRedo(A) == {e \in A : Len(RedoStack(appState, e)) > 0}

\* entities in A pushed a snapshot in this step; those in issued also got a
\* collaborator call; those in replaced had their whole slot overwritten
NoteStep(A, issued, replaced) ==
    /\ recLog' = [e \in Entities |->
                    IF e \in A
                    THEN LastN(Append(recLog[e], Visible(appState, e)), HISTORY_LIMIT + 1)
                    ELSE IF e \in replaced THEN <<>>
                    ELSE recLog[e]]
    /\ rt' = [e \in Entities |->
                IF e \in A
                THEN IF HasPending(e) THEN RtIdle
                     ELSE IF e \in issued
                          THEN [phase |-> "pending", s0 |-> Visible(appState, e),
                                s1 |-> Visible(appState, e)]
                          ELSE [phase |-> "done", s0 |-> Visible(appState, e),
                                s1 |-> Visible(appState', e)]
                ELSE IF e \in replaced THEN RtIdle
                ELSE rt[e]]
    /\ TrackStored

NoteRecorded(A, issued) == NoteStep(A, issued, {})

\* a collaborator call for entity e returned in this step
NoteResolved(e) ==
    /\ recLog' = recLog
    /\ rt' = [x \in Entities |->
                IF x # e THEN rt[x]
                ELSE IF rt[x].phase = "pending"
                THEN [phase |-> "done", s0 |-> rt[x].s0, s1 |-> Visible(appState', x)]
                ELSE RtIdle]
    /\ TrackStored

\* undo (which = "undo") or redo applied to the entities of A
NoteUndoRedo(A, which) ==
    LET moved == {e \in A : IF which = "undo" THEN Len(UndoStack(appState, e)) > 0
                                               ELSE Len(RedoStack(appState, e)) > 0}
    IN  /\ recLog' = [e \in Entities |-> IF e \in moved THEN <<>> ELSE recLog[e]]
        /\ rt' = [e \in Entities |->
                    IF e \notin moved THEN rt[e]
                    ELSE IF which = "undo" /\ rt[e].phase = "done"
                         THEN [rt[e] EXCEPT !.phase = "undone"]
                    ELSE IF which = "redo" /\ rt[e].phase = "undone"
                         THEN [rt[e] EXCEPT !.phase = "redone"]
                    ELSE RtIdle]
        /\ TrackStored

\* ---------------------------------------------------------------------------
\* Reference resolution and part generation
\* ---------------------------------------------------------------------------
viewsToCheck(single) == IF single THEN <<"FRONT">> ELSE AllViews

\* faulty variant: the raw front upload stands in for a missing original crop
\* whatever the balance
originalSourcesFallbackAlways(currentState, pType, balance) ==
    LET originalCrop == currentState.originalParts[pType]
        fullUpload == currentState.views["FRONT"].userUploadedImage
    IN  IF balance < 10 /\ originalCrop # Null THEN <<originalCrop>>
        ELSE IF originalCrop = Null /\ fullUpload # Null THEN <<fullUpload>>
        ELSE <<>>

\* dict[key]?.imgUrl: the crop filed under key, null when there is none
Lookup(dict, key) == IF key \in DOMAIN dict THEN dict[key] ELSE Null

\* 1. ORIGINAL CROP (from User Upload) - Include if balance < 10
originalSources(currentState, pType, balance) ==
    IF balance < 10
    THEN LET originalCrop == Lookup(currentState.originalParts, pType)
             fullUpload == currentState.views["FRONT"].userUploadedImage
         IN  IF originalCrop # Null THEN <<originalCrop>>
             ELSE IF fullUpload # Null THEN <<fullUpload>> ELSE <<>>
    ELSE <<>>

\* faulty variant: the view crops are included whatever the balance
viewSourcesUngated(currentState, pType, balance, single) ==
    LET vs == viewsToCheck(single)
        all == [i \in 1..Len(vs) |-> currentState.views[vs[i]].parts[pType]]
    IN  SelectSeq(all, LAMBDA x : x # Null)

\* 2. Generated/Analyzed Views - Include if balance > 0
viewSources(currentState, pType, balance, single) ==
    IF balance > 0
    THEN LET vs == viewsToCheck(single)
             all == [i \in 1..Len(vs) |-> Lookup(currentState.views[vs[i]].parts, pType)]
         IN  SelectSeq(all, LAMBDA x : x # Null)
    ELSE <<>>

\* 3. Manual References - Always included
manualSources(currentState, pType) ==
    IF pType \in DOMAIN currentState.manualReferences
    THEN currentState.manualReferences[pType] ELSE <<>>

\* faulty variant: the manual references come first
resolveSourcesManualFirst(currentState, pType, balance, single) ==
    manualSources(currentState, pType)
        \o originalSources(currentState, pType, balance)
        \o viewSources(currentState, pType, balance, single)

\* the crops array of generatePart
resolveSources(currentState, pType, balance, single) ==
    originalSources(currentState, pType, balance)
        \o viewSources(currentState, pType, balance, single)
        \o manualSources(currentState, pType)

\* balanceNote and effectiveStylePrompt
effectiveStylePrompt(currentState, balance) ==
    [style |-> currentState.globalStylePrompt,
     note |-> IF balance > 0 /\ balance < 10 THEN <<10 - balance, balance>> ELSE <<>>]

NoStyle == [style |-> "", note |-> <<>>]

Call(kind, target, images, modifications, stylePrompt, context, run) ==
    [kind |-> kind, target |-> target, images |-> images,
     modifications |-> modifications, stylePrompt |-> stylePrompt,
     context |-> context, run |-> run]

\* generatePart up to its await: the state update
generatePartSync(prev, pType, crops) ==
    IF Len(crops) = 0
    THEN [prev EXCEPT !.generatedSheets[pType].imgUrl = Null,
                      !.generatedSheets[pType].isLoading = FALSE]
    ELSE [prev EXCEPT !.generatedSheets[pType].isLoading = TRUE]

\* faulty variant: the collaborator is called even with no sources
generatePartCallsAlways(pType, currentState, modificationsToUse, balance, single, run) ==
    <<Call("composite", pType, resolveSources(currentState, pType, balance, single),
           modificationsToUse, effectiveStylePrompt(currentState, balance), Null, run)>>

\* generatePart up to its await: the collaborator call, if any
generatePartCalls(pType, currentState, modificationsToUse, balance, single, run) ==
    LET crops == resolveSources(currentState, pType, balance, single)
    IN  IF Len(crops) = 0 THEN <<>>
        ELSE <<Call("composite", pType, crops, modificationsToUse,
                    effectiveStylePrompt(currentState, balance), Null, run)>>

\* faulty variant: only the first part of the batch gets a snapshot
recordPartsFirstOnly(prev, parts) ==
    IF parts = <<>> THEN prev ELSE recordPartHistory(prev, Head(parts))

RECURSIVE recordParts(_, _)
recordParts(prev, parts) ==
    IF parts = <<>> THEN prev
    ELSE recordParts(recordPartHistory(prev, Head(parts)), Tail(parts))

RECURSIVE generateParts(_, _, _, _, _)
generateParts(prev, parts, currentState, balance, single) ==
    IF parts = <<>> THEN prev
    ELSE generateParts(
            generatePartSync(prev, Head(parts),
                             resolveSources(currentState, Head(parts), balance, single)),
            Tail(parts), currentState, balance, single)

RECURSIVE generateCalls(_, _, _, _, _)
generateCalls(parts, currentState, balance, single, run) ==
    IF parts = <<>> THEN <<>>
    ELSE generatePartCalls(Head(parts), currentState,
                           currentState.generatedSheets[Head(parts)].modifications,
                           balance, single, run)
         \o generateCalls(Tail(parts), currentState, balance, single, run)

Issued(callSeq) == {callSeq[i].target : i \in DOMAIN callSeq}

UnchangedFlags ==
    UNCHANGED <<referenceBalance, isSingleViewMode, isProcessing, selectedParts, sheetsRun,
                viewsRun, errorMsg, globalProgress>>

\* ---------------------------------------------------------------------------
\* Part handlers
\* ---------------------------------------------------------------------------
handleRegeneratePart(part) ==
    /\ IF appState.generatedSheets[part].isLoading
       THEN /\ lastOp' = Op("handleRegeneratePart", {}, {part}, {}, {})
            /\ UNCHANGED <<appState, pending, calls, recLog, stored, rt>>
       ELSE LET newCalls == generatePartCalls(part, appState,
                                appState.generatedSheets[part].modifications,
                                referenceBalance, isSingleViewMode, FALSE)
            IN  /\ appState' = generateParts(recordPartHistory(appState, part), <<part>>,
                                             appState, referenceBalance, isSingleViewMode)
                /\ pending' = pending \o newCalls
                /\ calls' = calls + Len(newCalls)
                /\ lastOp' = Op("handleRegeneratePart", {part}, {}, HadRedo({part}),
                                {part} \ Issued(newCalls))
                /\ NoteRecorded({part}, Issued(newCalls))
    /\ UNCHANGED <<processingViews, upscalingViews, upscalingParts>>
    /\ UnchangedFlags

handleBatchRegenerateParts(parts) ==
    LET validParts == SelectSeq(parts, LAMBDA p : ~appState.generatedSheets[p].isLoading)
        newCalls == generateCalls(validParts, appState, referenceBalance,
                                  isSingleViewMode, FALSE)
    IN  /\ appState' = generateParts(recordParts(appState, validParts), validParts,
                                     appState, referenceBalance, isSingleViewMode)
        /\ pending' = pending \o newCalls
        /\ calls' = calls + Len(newCalls)
        /\ lastOp' = Op("handleBatchRegenerateParts", Range(validParts),
                        Range(parts) \ Range(validParts), HadRedo(Range(validParts)),
                        Range(validParts) \ Issued(newCalls))
        /\ NoteRecorded(Range(validParts), Issued(newCalls))
        /\ UNCHANGED <<processingViews, upscalingViews, upscalingParts>>
        /\ UnchangedFlags

upscaleStart(prev, parts) ==
    [prev EXCEPT !.generatedSheets =
        [p \in DOMAIN @ |-> IF p \in Range(parts) THEN [@[p] EXCEPT !.isLoading = TRUE]
                            ELSE @[p]]]

upscaleCalls(parts, kind) ==
    [i \in 1..Len(parts) |->
        Call(kind, parts[i], <<appState.generatedSheets[parts[i]].imgUrl>>, <<>>,
             NoStyle, Null, FALSE)]

handleUpscalePart(part) ==
    /\ IF appState.generatedSheets[part].isLoading
       THEN /\ lastOp' = Op("handleUpscalePart", {}, {part}, {}, {})
            /\ UNCHANGED <<appState, pending, calls, upscalingParts, recLog, stored, rt>>
       ELSE IF appState.generatedSheets[part].imgUrl = Null
       THEN /\ lastOp' = Op("handleUpscalePart", {}, {}, {}, {})
            /\ UNCHANGED <<appState, pending, calls, upscalingParts, recLog, stored, rt>>
       ELSE /\ appState' = upscaleStart(recordPartHistory(appState, part), <<part>>)
            /\ upscalingParts' = Append(upscalingParts, part)
            /\ pending' = pending \o upscaleCalls(<<part>>, "upscalePart")
            /\ calls' = calls + 1
            /\ lastOp' = Op("handleUpscalePart", {part}, {}, HadRedo({part}), {})
            /\ NoteRecorded({part}, {part})
    /\ UNCHANGED <<processingViews, upscalingViews>>
    /\ UnchangedFlags

handleBatchUpscaleParts(parts) ==
    LET validParts == SelectSeq(parts, LAMBDA p :
                          /\ appState.generatedSheets[p].imgUrl # Null
                          /\ ~appState.generatedSheets[p].isLoading
                          /\ ~Includes(upscalingParts, p))
        inFlight == {p \in Range(parts) : \/ appState.generatedSheets[p].isLoading
                                          \/ Includes(upscalingParts, p)}
    IN  /\ appState' = recordParts(upscaleStart(appState, validParts), validParts)
        /\ upscalingParts' = upscalingParts \o validParts
        /\ pending' = pending \o upscaleCalls(validParts, "batchUpscalePart")
        /\ calls' = calls + Len(validParts)
        /\ lastOp' = Op("handleBatchUpscaleParts", Range(validParts), inFlight,
                        HadRedo(Range(validParts)), {})
        /\ NoteRecorded(Range(validParts), Range(validParts))
        /\ UNCHANGED <<processingViews, upscalingViews>>
        /\ UnchangedFlags

setPartModifications(prev, part, updatedModifications) ==
    [prev EXCEPT !.generatedSheets[part].modifications = updatedModifications]

newModification(id) == [id |-> id, prompt |-> "p", image |-> Null]

\* faulty variant: the regeneration is called with the ledger of the closure,
\* as generatePart would read it without the override
partLedgerEditStaleLedger(name, part, updatedModifications) ==
    LET newCalls == generatePartCalls(part, appState,
                                      appState.generatedSheets[part].modifications,
                                      referenceBalance, isSingleViewMode, FALSE)
    IN  /\ appState' = generateParts(
                          setPartModifications(recordPartHistory(appState, part), part,
                                               updatedModifications),
                          <<part>>, appState, referenceBalance, isSingleViewMode)
        /\ pending' = pending \o newCalls
        /\ calls' = calls + Len(newCalls)
        /\ lastOp' = Op(name, {part}, {}, HadRedo({part}), {part} \ Issued(newCalls))
        /\ NoteRecorded({part}, Issued(newCalls))

\* common tail of handlePartModification and handleDeleteModification
partLedgerEdit(name, part, updatedModifications) ==
    LET newCalls == generatePartCalls(part, appState, updatedModifications,
                                      referenceBalance, isSingleViewMode, FALSE)
    IN  /\ appState' = generateParts(
                          setPartModifications(recordPartHistory(appState, part), part,
                                               updatedModifications),
                          <<part>>, appState, referenceBalance, isSingleViewMode)
        /\ pending' = pending \o newCalls
        /\ calls' = calls + Len(newCalls)
        /\ lastOp' = Op(name, {part}, {}, HadRedo({part}), {part} \ Issued(newCalls))
        /\ NoteRecorded({part}, Issued(newCalls))

\* faulty variant: the snapshot is pushed before the in-flight check
handlePartModificationRecordsFirst(part, id) ==
    /\ IF appState.generatedSheets[part].isLoading
       THEN /\ appState' = recordPartHistory(appState, part)
            /\ lastOp' = Op("handlePartModification", {}, {part}, {}, {})
            /\ UNCHANGED <<pending, calls, recLog, stored, rt>>
       ELSE partLedgerEdit("handlePartModification", part,
                Append(appState.generatedSheets[part].modifications, newModification(id)))
    /\ UNCHANGED <<processingViews, upscalingViews, upscalingParts>>
    /\ UnchangedFlags

handlePartModification(part, id) ==
    /\ IF appState.generatedSheets[part].isLoading
       THEN /\ lastOp' = Op("handlePartModification", {}, {part}, {}, {})
            /\ UNCHANGED <<appState, pending, calls, recLog, stored, rt>>
       ELSE partLedgerEdit("handlePartModification", part,
                Append(appState.generatedSheets[part].modifications, newModification(id)))
    /\ UNCHANGED <<processingViews, upscalingViews, upscalingParts>>
    /\ UnchangedFlags

\* faulty variant: the removal drops the newest entry, whatever its id
handleDeleteModificationDropsNewest(part, modId) ==
    /\ IF appState.generatedSheets[part].isLoading
       THEN /\ lastOp' = Op("handleDeleteModification", {}, {part}, {}, {})
            /\ UNCHANGED <<appState, pending, calls, recLog, stored, rt>>
       ELSE partLedgerEdit("handleDeleteModification", part,
                Front(appState.generatedSheets[part].modifications))
    /\ UNCHANGED <<processingViews, upscalingViews, upscalingParts>>
    /\ UnchangedFlags

handleDeleteModification(part, modId) ==
    /\ IF appState.generatedSheets[part].isLoading
       THEN /\ lastOp' = Op("handleDeleteModification", {}, {part}, {}, {})
            /\ UNCHANGED <<appState, pending, calls, recLog, stored, rt>>
       ELSE partLedgerEdit("handleDeleteModification", part,
                SelectSeq(appState.generatedSheets[part].modifications,
                          LAMBDA m : m.id # modId))
    /\ UNCHANGED <<processingViews, upscalingViews, upscalingParts>>
    /\ UnchangedFlags

RECURSIVE undoParts(_, _)
undoParts(prev, parts) ==
    IF parts = <<>> THEN prev ELSE undoParts(partUndo(prev, Head(parts)), Tail(parts))

RECURSIVE redoParts(_, _)
redoParts(prev, parts) ==
    IF parts = <<>> THEN prev ELSE redoParts(partRedo(prev, Head(parts)), Tail(parts))

UndoRedoFrame ==
    /\ UNCHANGED <<processingViews, upscalingViews, upscalingParts, pending, calls>>
    /\ UnchangedFlags

handlePartUndo(part) ==
    /\ appState' = partUndo(appState, part)
    /\ lastOp' = Op("handlePartUndo", {part},
                    {x \in {part} : Len(UndoStack(appState, x)) = 0}, {}, {})
    /\ NoteUndoRedo({part}, "undo")
    /\ UndoRedoFrame

handlePartRedo(part) ==
    /\ appState' = partRedo(appState, part)
    /\ lastOp' = Op("handlePartRedo", {part},
                    {x \in {part} : Len(RedoStack(appState, x)) = 0}, {}, {})
    /\ NoteUndoRedo({part}, "redo")
    /\ UndoRedoFrame

handleBatchUndoParts(parts) ==
    /\ appState' = undoParts(appState, parts)
    /\ lastOp' = Op("handleBatchUndoParts", Range(parts),
                    {x \in Range(parts) : Len(UndoStack(appState, x)) = 0}, {}, {})
    /\ NoteUndoRedo(Range(parts), "undo")
    /\ UndoRedoFrame

handleBatchRedoParts(parts) ==
    /\ appState' = redoParts(appState, parts)
    /\ lastOp' = Op("handleBatchRedoParts", Range(parts),
                    {x \in Range(parts) : Len(RedoStack(appState, x)) = 0}, {}, {})
    /\ NoteUndoRedo(Range(parts), "redo")
    /\ UndoRedoFrame

\* ---------------------------------------------------------------------------
\* Custom parts
\* ---------------------------------------------------------------------------
\* the ids `custom_${Date.now()}` can take, and the texts of customPartInput
\* after trim()
CustomIds == {"custom_1", "custom_2"}
Labels == {"", "hat"}

\* Object.fromEntries(Object.entries(dict).filter(([k]) => k !== id))
WithoutKey(dict, id) == [k \in DOMAIN dict \ {id} |-> dict[k]]

\* {...dict, [id]: value}
WithKey(dict, id, value) == [k \in DOMAIN dict \cup {id} |-> IF k = id THEN value ELSE dict[k]]

\* the updater of handleAddCustomPart
addCustomPart(prev, newId, label) ==
    [prev EXCEPT !.customParts = Append(@, [id |-> newId, label |-> label]),
                 !.generatedSheets = WithKey(@, newId, InitialSheet),
                 !.manualReferences = WithKey(@, newId, <<>>)]

handleAddCustomPart(newId, customPartInput) ==
    /\ IF customPartInput = ""
       THEN UNCHANGED <<appState, selectedParts>>
       ELSE /\ appState' = addCustomPart(appState, newId, customPartInput)
            /\ selectedParts' = Append(selectedParts, newId)
    /\ lastOp' = Op("handleAddCustomPart", {}, {}, {}, {})
    /\ UNCHANGED <<processingViews, upscalingViews, upscalingParts, pending, calls,
                   recLog, stored, rt, referenceBalance, isSingleViewMode, isProcessing,
                   sheetsRun, viewsRun, errorMsg, globalProgress>>

\* faulty variant: the manual references of the part are left behind
removeCustomPartKeepsReferences(prev, id) ==
    [prev EXCEPT !.customParts = SelectSeq(@, LAMBDA p : p.id # id),
                 !.generatedSheets = WithoutKey(@, id)]

\* the updater of handleRemoveCustomPart
removeCustomPart(prev, id) ==
    [prev EXCEPT !.customParts = SelectSeq(@, LAMBDA p : p.id # id),
                 !.generatedSheets = WithoutKey(@, id),
                 !.manualReferences = WithoutKey(@, id)]

handleRemoveCustomPart(id) ==
    /\ appState' = removeCustomPart(appState, id)
    /\ selectedParts' = SelectSeq(selectedParts, LAMBDA p : p # id)
    /\ lastOp' = [tag |-> "removed", ids |-> {id}]
    /\ UNCHANGED <<processingViews, upscalingViews, upscalingParts, pending, calls,
                   recLog, stored, rt, referenceBalance, isSingleViewMode, isProcessing,
                   sheetsRun, viewsRun, errorMsg, globalProgress>>

handleAddManualReference(part, base64) ==
    /\ appState' = [appState EXCEPT !.manualReferences[part] = Append(@, base64)]
    /\ lastOp' = Op("handleAddManualReference", {part}, {}, {}, {})
    /\ UNCHANGED <<processingViews, upscalingViews, upscalingParts, pending, calls,
                   recLog, stored, rt>>
    /\ UnchangedFlags

handleRemoveManualReference(part, index) ==
    /\ index + 1 \in DOMAIN appState.manualReferences[part]
    /\ appState' = [appState EXCEPT !.manualReferences[part] = RemoveAt(@, index + 1)]
    /\ lastOp' = Op("handleRemoveManualReference", {part}, {}, {}, {})
    /\ UNCHANGED <<processingViews, upscalingViews, upscalingParts, pending, calls,
                   recLog, stored, rt>>
    /\ UnchangedFlags

\* ---------------------------------------------------------------------------
\* Continuations of part calls
\* ---------------------------------------------------------------------------
Results == GenImgs \cup {Null}

\* faulty variant: a failed call also ends the loading of every other part
generatePartDoneCancelsSiblings(prev, pType, compositeUrl) ==
    IF compositeUrl = Null
    THEN [prev EXCEPT !.generatedSheets =
            [p \in DOMAIN @ |-> [@[p] EXCEPT !.isLoading = FALSE,
                                             !.imgUrl = IF p = pType THEN Null ELSE @]]]
    ELSE [prev EXCEPT !.generatedSheets[pType].imgUrl = compositeUrl,
                      !.generatedSheets[pType].isLoading = FALSE]

\* generatePart after await generateCompositeSheet
\* {...prev.generatedSheets, [pType]: {...prev.generatedSheets[pType], imgUrl,
\* isLoading}}: a key that is gone from prev is created with these two fields
generatePartDone(prev, pType, compositeUrl) ==
    IF pType \in DOMAIN prev.generatedSheets
    THEN [prev EXCEPT !.generatedSheets[pType].imgUrl = compositeUrl,
                      !.generatedSheets[pType].isLoading = FALSE]
    ELSE [prev EXCEPT !.generatedSheets =
            WithKey(@, pType, [imgUrl |-> compositeUrl, isLoading |-> FALSE])]

\* handleGenerateSheets after the await of one generatePart, and after the
\* Promise.all of all of them
sheetsPartDone(run) ==
    IF run.phase = "generating" /\ run.remaining > 1
    THEN [run EXCEPT !.remaining = @ - 1]
    ELSE [phase |-> "idle"]

\* globalProgress while the parts of a run are generated: 20 + (completedParts
\* / totalParts) * 80, and 0 from the finally block
sheetsProgress(run) ==
    IF run.phase = "generating"
    THEN 20 + ((run.total - run.remaining) * 80) \div run.total
    ELSE 0

generatePartResolved(i, compositeUrl) ==
    /\ i \in DOMAIN pending
    /\ pending[i].kind = "composite"
    /\ appState' = generatePartDone(appState, pending[i].target, compositeUrl)
    /\ pending' = RemoveAt(pending, i)
    /\ IF pending[i].run
       THEN /\ sheetsRun' = sheetsPartDone(sheetsRun)
            /\ isProcessing' = IF sheetsRun'.phase = "idle" THEN FALSE ELSE isProcessing
            /\ globalProgress' = sheetsProgress(sheetsRun')
       ELSE UNCHANGED <<sheetsRun, isProcessing, globalProgress>>
    /\ lastOp' = Op("generatePartResolved", {pending[i].target}, {}, {}, {})
    /\ NoteResolved(pending[i].target)
    /\ UNCHANGED <<processingViews, upscalingViews, upscalingParts, calls,
                   referenceBalance, isSingleViewMode, selectedParts, viewsRun, errorMsg>>

\* faulty variant: a null result leaves the part loading
upscalePartDoneKeepsLoading(prev, part, upscaledUrl) ==
    IF upscaledUrl # Null
    THEN [prev EXCEPT !.generatedSheets[part].imgUrl = upscaledUrl,
                      !.generatedSheets[part].isLoading = FALSE]
    ELSE prev

\* handleUpscalePart after await upscaleImage
upscalePartDone(prev, part, upscaledUrl) ==
    IF part \notin DOMAIN prev.generatedSheets
    THEN [prev EXCEPT !.generatedSheets =
            WithKey(@, part, IF upscaledUrl # Null
                             THEN [imgUrl |-> upscaledUrl, isLoading |-> FALSE]
                             ELSE [isLoading |-> FALSE])]
    ELSE IF upscaledUrl # Null
    THEN [prev EXCEPT !.generatedSheets[part].imgUrl = upscaledUrl,
                      !.generatedSheets[part].isLoading = FALSE]
    ELSE [prev EXCEPT !.generatedSheets[part].isLoading = FALSE]

\* faulty variant: a null result replaces the image
batchUpscalePartDoneOverwrites(prev, part, upscaled) ==
    [prev EXCEPT !.generatedSheets[part].imgUrl = upscaled,
                 !.generatedSheets[part].isLoading = FALSE]

\* handleBatchUpscaleParts after await upscaleImage
batchUpscalePartDone(prev, part, upscaled) ==
    [prev EXCEPT !.generatedSheets[part].imgUrl = IF upscaled # Null THEN upscaled ELSE @,
                 !.generatedSheets[part].isLoading = FALSE]

upscalePartResolved(i, upscaledUrl) ==
    /\ i \in DOMAIN pending
    /\ pending[i].kind \in {"upscalePart", "batchUpscalePart"}
    /\ appState' = IF pending[i].kind = "upscalePart"
                   THEN upscalePartDone(appState, pending[i].target, upscaledUrl)
                   ELSE batchUpscalePartDone(appState, pending[i].target, upscaledUrl)
    /\ upscalingParts' = Without(upscalingParts, pending[i].target)
    /\ pending' = RemoveAt(pending, i)
    /\ lastOp' = Op("upscalePartResolved", {pending[i].target}, {}, {}, {})
    /\ NoteResolved(pending[i].target)
    /\ UNCHANGED <<processingViews, upscalingViews, calls>>
    /\ UnchangedFlags

\* ---------------------------------------------------------------------------
\* View handlers
\* ---------------------------------------------------------------------------
\* sourceImage of a view regeneration
sourceImage(st, view) ==
    IF view = "FRONT"
    THEN (IF st.views["FRONT"].userUploadedImage # Null
          THEN st.views["FRONT"].userUploadedImage
          ELSE st.views["FRONT"].originalImage)
    ELSE st.views["FRONT"].originalImage

contextImage(st, view) ==
    IF view \in {"SIDE", "BACK"} THEN st.views["SEMI_SIDE"].originalImage ELSE Null

RECURSIVE recordViews(_, _)
recordViews(prev, views) ==
    IF views = <<>> THEN prev
    ELSE recordViews(recordViewHistory(prev, Head(views)), Tail(views))

viewCalls(views, kind) ==
    [i \in 1..Len(views) |->
        Call(kind, views[i], <<sourceImage(appState, views[i])>>,
             appState.views[views[i]].modifications, NoStyle,
             contextImage(appState, views[i]), FALSE)]

\* faulty variant: no snapshot is pushed before the calls are dispatched
handleBatchRegenerateViewsNoSnapshot(targetViews) ==
    LET validTargets == SelectSeq(targetViews, LAMBDA v : ~Includes(processingViews, v))
        dispatched == SelectSeq(validTargets, LAMBDA v : sourceImage(appState, v) # Null)
    IN  /\ appState' = appState
        /\ processingViews' = processingViews \o dispatched
        /\ pending' = pending \o viewCalls(dispatched, "generateView")
        /\ calls' = calls + Len(dispatched)
        /\ lastOp' = Op("handleBatchRegenerateViews", Range(dispatched),
                        Range(targetViews) \ Range(validTargets),
                        HadRedo(Range(dispatched)), {})
        /\ NoteRecorded(Range(dispatched), Range(dispatched))
        /\ UNCHANGED <<upscalingViews, upscalingParts>>
        /\ UnchangedFlags

handleBatchRegenerateViews(targetViews) ==
    LET validTargets == SelectSeq(targetViews, LAMBDA v : ~Includes(processingViews, v))
        dispatched == SelectSeq(validTargets, LAMBDA v : sourceImage(appState, v) # Null)
    IN  /\ appState' = recordViews(appState, dispatched)
        /\ processingViews' = processingViews \o dispatched
        /\ pending' = pending \o viewCalls(dispatched, "generateView")
        /\ calls' = calls + Len(dispatched)
        /\ lastOp' = Op("handleBatchRegenerateViews", Range(dispatched),
                        Range(targetViews) \ Range(validTargets),
                        HadRedo(Range(dispatched)), {})
        /\ NoteRecorded(Range(dispatched), Range(dispatched))
        /\ UNCHANGED <<upscalingViews, upscalingParts>>
        /\ UnchangedFlags

upscaleViewCalls(views) ==
    [i \in 1..Len(views) |->
        Call("upscaleView", views[i], <<appState.views[views[i]].originalImage>>, <<>>,
             NoStyle, Null, FALSE)]

handleBatchUpscaleViews(targetViews) ==
    LET validTargets == SelectSeq(targetViews, LAMBDA v :
                            /\ ~Includes(upscalingViews, v)
                            /\ appState.views[v].originalImage # Null)
    IN  /\ appState' = recordViews(appState, validTargets)
        /\ upscalingViews' = upscalingViews \o validTargets
        /\ pending' = pending \o upscaleViewCalls(validTargets)
        /\ calls' = calls + Len(validTargets)
        /\ lastOp' = Op("handleBatchUpscaleViews", Range(validTargets),
                        {v \in Range(targetViews) : Includes(upscalingViews, v)},
                        HadRedo(Range(validTargets)), {})
        /\ NoteRecorded(Range(validTargets), Range(validTargets))
        /\ UNCHANGED <<processingViews, upscalingParts>>
        /\ UnchangedFlags

setViewModifications(prev, view, updatedModifications) ==
    [prev EXCEPT !.views[view].modifications = updatedModifications]

\* common tail of handleViewModification and handleDeleteViewModification
viewLedgerEdit(name, view, updatedModifications) ==
    LET src == sourceImage(appState, view)
        newCalls == IF src # Null
                    THEN <<Call("generateView", view, <<src>>, updatedModifications,
                                NoStyle, contextImage(appState, view), FALSE)>>
                    ELSE <<>>
    IN  /\ appState' = setViewModifications(recordViewHistory(appState, view), view,
                                            updatedModifications)
        /\ processingViews' = IF src # Null THEN Append(processingViews, view)
                              ELSE processingViews
        /\ pending' = pending \o newCalls
        /\ calls' = calls + Len(newCalls)
        /\ lastOp' = Op(name, {view}, {}, HadRedo({view}), {})
        /\ NoteRecorded({view}, Issued(newCalls))

handleViewModification(view, id) ==
    /\ IF Includes(processingViews, view)
       THEN /\ lastOp' = Op("handleViewModification", {}, {view}, {}, {})
            /\ UNCHANGED <<appState, processingViews, pending, calls, recLog, stored, rt>>
       ELSE viewLedgerEdit("handleViewModification", view,
                Append(appState.views[view].modifications, newModification(id)))
    /\ UNCHANGED <<upscalingViews, upscalingParts>>
    /\ UnchangedFlags

handleDeleteViewModification(view, modId) ==
    /\ IF Includes(processingViews, view)
       THEN /\ lastOp' = Op("handleDeleteViewModification", {}, {view}, {}, {})
            /\ UNCHANGED <<appState, processingViews, pending, calls, recLog, stored, rt>>
       ELSE viewLedgerEdit("handleDeleteViewModification", view,
                SelectSeq(appState.views[view].modifications, LAMBDA m : m.id # modId))
    /\ UNCHANGED <<upscalingViews, upscalingParts>>
    /\ UnchangedFlags

handleUpload(view, base64) ==
    /\ appState' = uploadView(appState, view, base64)
    /\ lastOp' = Op("handleUpload", {view}, {}, {}, {})
    /\ NoteStep({}, {}, {view})
    /\ UNCHANGED <<processingViews, upscalingViews, upscalingParts, pending, calls>>
    /\ UnchangedFlags

handleClear(view) ==
    /\ appState' = clearView(appState, view)
    /\ lastOp' = Op("handleClear", {view}, {}, {}, {})
    /\ NoteStep({}, {}, {view})
    /\ UNCHANGED <<processingViews, upscalingViews, upscalingParts, pending, calls>>
    /\ UnchangedFlags

handleSwapViewImage(view, type) ==
    /\ appState' = swapViewImage(appState, view, type)
    /\ lastOp' = Op("handleSwapViewImage", {view}, {}, {}, {})
    /\ NoteStep({}, {}, {view})
    /\ UNCHANGED <<processingViews, upscalingViews, upscalingParts, pending, calls>>
    /\ UnchangedFlags

handleViewUndo(view) ==
    /\ appState' = viewUndo(appState, view)
    /\ lastOp' = Op("handleViewUndo", {view},
                    {x \in {view} : Len(UndoStack(appState, x)) = 0}, {}, {})
    /\ NoteUndoRedo({view}, "undo")
    /\ UndoRedoFrame

handleViewRedo(view) ==
    /\ appState' = viewRedo(appState, view)
    /\ lastOp' = Op("handleViewRedo", {view},
                    {x \in {view} : Len(RedoStack(appState, x)) = 0}, {}, {})
    /\ NoteUndoRedo({view}, "redo")
    /\ UndoRedoFrame

\* after await generateCharacterView / upscaleImage: if (newViewImage) updateViewState
viewResultDone(prev, view, newViewImage) ==
    IF newViewImage # Null THEN updateViewState(prev, view, newViewImage, newViewImage)
    ELSE prev

generateViewResolved(i, newViewImage) ==
    /\ i \in DOMAIN pending
    /\ pending[i].kind = "generateView"
    /\ appState' = viewResultDone(appState, pending[i].target, newViewImage)
    /\ processingViews' = Without(processingViews, pending[i].target)
    /\ pending' = RemoveAt(pending, i)
    /\ lastOp' = Op("generateViewResolved", {pending[i].target}, {}, {}, {})
    /\ NoteResolved(pending[i].target)
    /\ UNCHANGED <<upscalingViews, upscalingParts, calls>>
    /\ UnchangedFlags

upscaleViewResolved(i, upscaledUrl) ==
    /\ i \in DOMAIN pending
    /\ pending[i].kind = "upscaleView"
    /\ appState' = viewResultDone(appState, pending[i].target, upscaledUrl)
    /\ upscalingViews' = Without(upscalingViews, pending[i].target)
    /\ pending' = RemoveAt(pending, i)
    /\ lastOp' = Op("upscaleViewResolved", {pending[i].target}, {}, {}, {})
    /\ NoteResolved(pending[i].target)
    /\ UNCHANGED <<processingViews, upscalingParts, calls>>
    /\ UnchangedFlags

\* ---------------------------------------------------------------------------
\* Phase 2: analyze and generate sheets
\* ---------------------------------------------------------------------------
IdleRun == [phase |-> "idle"]

\* errorMsg when no error is shown
NoErrorMsg == "null"

\* handleGenerateSheets up to await Promise.all(... processViewAnalysis ...).
\* The button that invokes it is disabled while isProcessing.
handleGenerateSheets ==
    /\ ~isProcessing
    /\ sheetsRun.phase = "idle"
    /\ Len(selectedParts) > 0
    /\ isProcessing' = TRUE
    /\ sheetsRun' = [phase |-> "analyzing", appState |-> appState,
                     referenceBalance |-> referenceBalance,
                     isSingleViewMode |-> isSingleViewMode,
                     selectedParts |-> selectedParts]
    /\ errorMsg' = NoErrorMsg
    /\ globalProgress' = 5
    /\ lastOp' = Op("handleGenerateSheets", {}, {}, {}, {})
    /\ UNCHANGED <<appState, processingViews, upscalingViews, upscalingParts, pending,
                   calls, recLog, stored, rt, referenceBalance, isSingleViewMode,
                   selectedParts, viewsRun>>

\* processViewAnalysis: the crops found in one view laid over its parts
analyzedView(imageData, view, found) ==
    IF imageData.originalImage = Null THEN imageData
    ELSE [imageData EXCEPT !.parts =
            [p \in DOMAIN @ |-> IF p \in found THEN ViewCropImg(view) ELSE @[p]]]

\* currentViews after the analysis of the active views
analyzedViews(closure, det) ==
    [v \in ViewType |->
        IF v \in Range(viewsToCheck(closure.isSingleViewMode))
        THEN analyzedView(closure.appState.views[v], v, det[v])
        ELSE closure.appState.views[v]]

\* newOriginalParts after analyzeSingleImage of the raw upload
analyzedOriginalParts(closure, rawFound) ==
    LET frontView == closure.appState.views["FRONT"]
    IN  IF frontView.userUploadedImage # Null
           /\ frontView.userUploadedImage # frontView.originalImage
        THEN [p \in DOMAIN closure.appState.originalParts |->
                IF p \in rawFound THEN OrigCropImg ELSE closure.appState.originalParts[p]]
        ELSE closure.appState.originalParts

detectedParts(closure, currentViews, newOriginalParts) ==
    {p \in PartType :
        \/ \E v \in Range(viewsToCheck(closure.isSingleViewMode)) :
              currentViews[v].parts[p] # Null
        \/ newOriginalParts[p] # Null
        \/ Len(closure.appState.manualReferences[p]) > 0}

\* validPartsToGenerate
sheetsValidParts(closure, det, rawFound) ==
    SelectSeq(closure.selectedParts,
              LAMBDA p : p \in detectedParts(closure, analyzedViews(closure, det),
                                             analyzedOriginalParts(closure, rawFound)))

tempStateForGeneration(closure, det, rawFound) ==
    [closure.appState EXCEPT !.views = analyzedViews(closure, det),
                             !.originalParts = analyzedOriginalParts(closure, rawFound)]

\* the collaborator calls of validPartsToGenerate.map(... generatePart ...)
sheetsCalls(closure, det, rawFound) ==
    generateCalls(sheetsValidParts(closure, det, rawFound),
                  tempStateForGeneration(closure, det, rawFound),
                  closure.referenceBalance, closure.isSingleViewMode, TRUE)

\* the state updates queued from setAppState(prev => ({...prev, views:
\* currentViews, originalParts: newOriginalParts})) up to the await of the
\* generatePart calls
sheetsDispatch(prev, closure, det, rawFound) ==
    generateParts(
        recordParts([prev EXCEPT !.views = analyzedViews(closure, det),
                                 !.originalParts = analyzedOriginalParts(closure, rawFound)],
                    sheetsValidParts(closure, det, rawFound)),
        sheetsValidParts(closure, det, rawFound),
        tempStateForGeneration(closure, det, rawFound),
        closure.referenceBalance, closure.isSingleViewMode)

\* handleGenerateSheets from the return of the analyses up to the await of
\* the generatePart calls
sheetsAnalysisResolved(det, rawFound) ==
    /\ sheetsRun.phase = "analyzing"
    /\ LET validPartsToGenerate == sheetsValidParts(sheetsRun, det, rawFound)
           newCalls == sheetsCalls(sheetsRun, det, rawFound)
       IN  /\ selectedParts' = validPartsToGenerate
           /\ IF Len(validPartsToGenerate) = 0
              THEN /\ isProcessing' = FALSE
                   /\ sheetsRun' = IdleRun
                   /\ errorMsg' = "error_no_part"
                   /\ globalProgress' = 0
                   /\ lastOp' = Op("handleGenerateSheets", {}, {}, {}, {})
                   /\ UNCHANGED <<appState, pending, calls, recLog, stored, rt>>
              ELSE /\ appState' = sheetsDispatch(appState, sheetsRun, det, rawFound)
                   /\ pending' = pending \o newCalls
                   /\ calls' = calls + Len(newCalls)
                   /\ sheetsRun' = IF Len(newCalls) = 0 THEN IdleRun
                                   ELSE [phase |-> "generating", remaining |-> Len(newCalls),
                                         total |-> Len(validPartsToGenerate)]
                   /\ globalProgress' = sheetsProgress(sheetsRun')
                   /\ isProcessing' = (Len(newCalls) # 0)
                   /\ errorMsg' = errorMsg
                   /\ lastOp' = Op("handleGenerateSheets", Range(validPartsToGenerate), {},
                                   HadRedo(Range(validPartsToGenerate)),
                                   Range(validPartsToGenerate) \ Issued(newCalls))
                   /\ NoteStep(Range(validPartsToGenerate), Issued(newCalls), ViewType)
    /\ UNCHANGED <<processingViews, upscalingViews, upscalingParts,
                   referenceBalance, isSingleViewMode, viewsRun>>

\* ---------------------------------------------------------------------------
\* Phase 1: the project pipeline (handleGenerateViews)
\* ---------------------------------------------------------------------------
hasAllViews ==
    IF isSingleViewMode THEN appState.views["FRONT"].originalImage # Null
    ELSE \A v \in ViewType : appState.views[v].originalImage # Null

\* what extractColorPalette returns: the colors, or [] on failure
Palettes == {<<>>, <<"#0F4C81">>}

\* faulty variant: the result is stored as generatedImage only
withResultGeneratedOnly(currentViews, view, img) ==
    [currentViews EXCEPT ![view].generatedImage = img]

\* currentViews[view] = {...currentViews[view], originalImage, generatedImage}
withResult(currentViews, view, img) ==
    [currentViews EXCEPT ![view].originalImage = img, ![view].generatedImage = img]

\* the normalized front also resets the parts of the view
withFront(currentViews, img) ==
    [withResult(currentViews, "FRONT", img) EXCEPT !["FRONT"].parts = INITIAL_VIEW_STATE.parts]

\* recordViewHistory(view) followed by setAppState(prev => ({...prev, views:
\* {...prev.views, [view]: currentViews[view]}})): the view of the closure
\* replaces the view of prev, the snapshot just pushed included
commitView(prev, currentViews, view) ==
    [recordViewHistory(prev, view) EXCEPT !.views[view] = currentViews[view]]

pipelineCall(target, source, modifications, context) ==
    Call("pipelineView", target, <<source>>, modifications, NoStyle, context, FALSE)

\* globalProgress at the first await of a run: setGlobalProgress(5) before
\* Step 1, setGlobalProgress(35) when Step 1 is skipped
startProgress(single) == IF single THEN 35 ELSE 5

\* faulty variant: the progress starts again from 5 before SIDE and BACK
pipelineProgressRestarts(run) ==
    IF run.phase = "front" THEN 35
    ELSE IF run.phase = "sideBack" THEN 5
    ELSE IF run.phase = "palette" THEN 90
    ELSE 0

\* globalProgress at the await the run has reached: 35 before the FRONT call,
\* 65 before SIDE and BACK, 90 before the palette, and 0 from the finally
\* block, which runs in the step of the last setGlobalProgress(100)
pipelineProgress(run) ==
    IF run.phase = "front" THEN 35
    ELSE IF run.phase = "sideBack" THEN 65
    ELSE IF run.phase = "palette" THEN 90
    ELSE 0

\* faulty variant: the FRONT call is issued together with the SEMI_SIDE call
firstCallsTogether(single, currentViews, frontSource) ==
    IF single
    THEN <<pipelineCall("FRONT", frontSource, currentViews["FRONT"].modifications, Null)>>
    ELSE <<pipelineCall("SEMI_SIDE", frontSource, <<>>, Null),
           pipelineCall("FRONT", frontSource, currentViews["FRONT"].modifications, Null)>>

\* the first call of a run: Step 1 in multi-view mode, Step 2 otherwise
firstCalls(single, currentViews, frontSource) ==
    IF single
    THEN <<pipelineCall("FRONT", frontSource, currentViews["FRONT"].modifications, Null)>>
    ELSE <<pipelineCall("SEMI_SIDE", frontSource, <<>>, Null)>>

\* faulty variant: the run starts without looking at frontSource
handleGenerateViewsNoSourceCheck ==
    /\ ~isProcessing
    /\ viewsRun.phase = "idle"
    /\ ~hasAllViews
    /\ LET currentViews == appState.views
           frontSource == IF currentViews["FRONT"].userUploadedImage # Null
                          THEN currentViews["FRONT"].userUploadedImage
                          ELSE currentViews["FRONT"].originalImage
           newCalls == firstCalls(isSingleViewMode, currentViews, frontSource)
       IN  /\ errorMsg' = NoErrorMsg
           /\ globalProgress' = startProgress(isSingleViewMode)
           /\ isProcessing' = TRUE
           /\ viewsRun' = [phase |-> IF isSingleViewMode THEN "front" ELSE "semiSide",
                           currentViews |-> currentViews,
                           frontSource |-> frontSource,
                           threeQuarterRef |-> Null,
                           normalizedFront |-> Null,
                           isSingleViewMode |-> isSingleViewMode,
                           colorPalette |-> appState.colorPalette,
                           returned |-> {},
                           sideImg |-> Null,
                           backImg |-> Null]
           /\ pending' = pending \o newCalls
           /\ calls' = calls + Len(newCalls)
    /\ lastOp' = Op("handleGenerateViews", {}, {}, {}, {})
    /\ UNCHANGED <<appState, processingViews, upscalingViews, upscalingParts, recLog, stored, rt,
                   referenceBalance, isSingleViewMode, selectedParts, sheetsRun>>

\* handleGenerateViews up to its first await
handleGenerateViews ==
    /\ ~isProcessing
    /\ viewsRun.phase = "idle"
    /\ ~hasAllViews
    /\ LET currentViews == appState.views
           frontSource == IF currentViews["FRONT"].userUploadedImage # Null
                          THEN currentViews["FRONT"].userUploadedImage
                          ELSE currentViews["FRONT"].originalImage
           newCalls == firstCalls(isSingleViewMode, currentViews, frontSource)
       IN  IF frontSource = Null
           THEN /\ errorMsg' = "error_no_ref"
                /\ globalProgress' = 0
                /\ UNCHANGED <<isProcessing, viewsRun, pending, calls>>
           ELSE /\ errorMsg' = NoErrorMsg
                /\ globalProgress' = startProgress(isSingleViewMode)
                /\ isProcessing' = TRUE
                /\ viewsRun' = [phase |-> IF isSingleViewMode THEN "front" ELSE "semiSide",
                                currentViews |-> currentViews,
                                frontSource |-> frontSource,
                                threeQuarterRef |-> Null,
                                normalizedFront |-> Null,
                                isSingleViewMode |-> isSingleViewMode,
                                colorPalette |-> appState.colorPalette,
                                returned |-> {},
                                sideImg |-> Null,
                                backImg |-> Null]
                /\ pending' = pending \o newCalls
                /\ calls' = calls + Len(newCalls)
    /\ lastOp' = Op("handleGenerateViews", {}, {}, {}, {})
    /\ UNCHANGED <<appState, processingViews, upscalingViews, upscalingParts, recLog, stored, rt,
                   referenceBalance, isSingleViewMode, selectedParts, sheetsRun>>

\* where the run goes after its views: "if (appState.colorPalette.length ===
\* 0)" reads the palette of the closure
afterViews(run) == IF run.colorPalette = <<>> THEN "palette" ELSE "done"

\* the closure of the run after the call for target returned r
runAfter(run, target, r) ==
    IF run.phase = "semiSide"
    THEN [run EXCEPT !.phase = "front",
                     !.threeQuarterRef = r,
                     !.currentViews = IF r # Null THEN withResult(@, "SEMI_SIDE", r) ELSE @]
    ELSE IF run.phase = "front"
    THEN [run EXCEPT !.phase = IF run.isSingleViewMode THEN afterViews(run) ELSE "sideBack",
                     !.normalizedFront = r,
                     !.currentViews = IF r # Null THEN withFront(@, r) ELSE @]
    ELSE LET got == [run EXCEPT !.returned = @ \cup {target},
                                !.sideImg = IF target = "SIDE" THEN r ELSE @,
                                !.backImg = IF target = "BACK" THEN r ELSE @]
             withSide == IF got.sideImg # Null
                         THEN withResult(got.currentViews, "SIDE", got.sideImg)
                         ELSE got.currentViews
             withBack == IF got.backImg # Null
                         THEN withResult(withSide, "BACK", got.backImg)
                         ELSE withSide
         IN  IF got.returned = {"SIDE", "BACK"}
             THEN [got EXCEPT !.phase = afterViews(run), !.currentViews = withBack]
             ELSE got

\* the calls issued when the call of phase run.phase returned r
callsAfter(run, newRun, r) ==
    LET sourceForGeneration == IF newRun.normalizedFront # Null THEN newRun.normalizedFront
                               ELSE run.frontSource
    IN  IF run.phase = "semiSide"
        THEN <<pipelineCall("FRONT", run.frontSource,
                            newRun.currentViews["FRONT"].modifications,
                            newRun.threeQuarterRef)>>
        ELSE IF run.phase = "front" /\ newRun.phase = "sideBack"
        THEN <<pipelineCall("SIDE", sourceForGeneration, <<>>, run.threeQuarterRef),
               pipelineCall("BACK", sourceForGeneration, <<>>, run.threeQuarterRef)>>
        ELSE IF newRun.phase = "palette"
        THEN <<Call("extractColorPalette", "PALETTE", <<sourceForGeneration>>, <<>>,
                    NoStyle, Null, FALSE)>>
        ELSE <<>>

\* the state updates queued when the call of phase run.phase returned r
stateAfter(prev, run, newRun, r) ==
    IF run.phase = "semiSide"
    THEN (IF r # Null THEN commitView(prev, newRun.currentViews, "SEMI_SIDE") ELSE prev)
    ELSE IF run.phase = "front"
    THEN (IF r # Null THEN commitView(prev, newRun.currentViews, "FRONT") ELSE prev)
    ELSE IF newRun.phase # "sideBack"
    THEN [prev EXCEPT !.views = newRun.currentViews]
    ELSE prev

\* the views whose whole record the step replaced by that of the closure
replacedViews(run, newRun, r) ==
    IF run.phase = "semiSide" THEN (IF r # Null THEN {"SEMI_SIDE"} ELSE {})
    ELSE IF run.phase = "front" THEN (IF r # Null THEN {"FRONT"} ELSE {})
    ELSE IF newRun.phase # "sideBack" THEN ViewType
    ELSE {}

\* handleGenerateViews from the return of a generateCharacterView call up to
\* its next await, or to the end of its finally block
pipelineViewResolved(i, r) ==
    /\ i \in DOMAIN pending
    /\ pending[i].kind = "pipelineView"
    /\ viewsRun.phase \in {"semiSide", "front", "sideBack"}
    /\ LET newRun == runAfter(viewsRun, pending[i].target, r)
           newCalls == callsAfter(viewsRun, newRun, r)
       IN  /\ appState' = stateAfter(appState, viewsRun, newRun, r)
           /\ pending' = RemoveAt(pending, i) \o newCalls
           /\ calls' = calls + Len(newCalls)
           /\ viewsRun' = IF newRun.phase = "done" THEN IdleRun ELSE newRun
           /\ isProcessing' = (newRun.phase # "done")
           /\ globalProgress' = pipelineProgress(newRun)
           /\ NoteStep({}, {}, replacedViews(viewsRun, newRun, r))
    /\ lastOp' = Op("handleGenerateViews", {}, {}, {}, {})
    /\ UNCHANGED <<processingViews, upscalingViews, upscalingParts, errorMsg,
                   referenceBalance, isSingleViewMode, selectedParts, sheetsRun>>

\* handleGenerateViews from the return of extractColorPalette to the end of
\* its finally block
paletteResolved(i, palette) ==
    /\ i \in DOMAIN pending
    /\ pending[i].kind = "extractColorPalette"
    /\ viewsRun.phase = "palette"
    /\ appState' = [appState EXCEPT !.views = viewsRun.currentViews,
                                    !.colorPalette = palette]
    /\ pending' = RemoveAt(pending, i)
    /\ viewsRun' = IdleRun
    /\ isProcessing' = FALSE
    /\ globalProgress' = 0
    /\ NoteStep({}, {}, ViewType)
    /\ lastOp' = Op("handleGenerateViews", {}, {}, {}, {})
    /\ UNCHANGED <<processingViews, upscalingViews, upscalingParts, errorMsg, calls,
                   referenceBalance, isSingleViewMode, selectedParts, sheetsRun>>

\* ---------------------------------------------------------------------------
\* Specification of the history engine: single and batch regenerate, upscale
\* and ledger edits of views and parts, undo and redo, and the returns of
\* the collaborator
\* ---------------------------------------------------------------------------
\* the project after the user uploaded an image for each of the four views
UploadedProject ==
    uploadView(uploadView(uploadView(uploadView(getInitialAppState,
        "FRONT", UploadImg), "SEMI_SIDE", UploadImg), "SIDE", UploadImg),
        "BACK", UploadImg)

Init ==
    /\ appState = UploadedProject
    /\ processingViews = <<>>
    /\ upscalingViews = <<>>
    /\ upscalingParts = <<>>
    /\ referenceBalance = 5
    /\ isSingleViewMode = FALSE
    /\ isProcessing = FALSE
    /\ selectedParts = PartOrder
    /\ sheetsRun = IdleRun
    /\ viewsRun = IdleRun
    /\ errorMsg = NoErrorMsg
    /\ globalProgress = 0
    /\ pending = <<>>
    /\ calls = 0
    /\ lastOp = Op("init", {}, {}, {}, {})
    /\ recLog = [e \in Entities |-> <<>>]
    /\ stored = [v \in ViewType |-> SnapshotImages(appState, v)]
    /\ rt = [e \in Entities |-> RtIdle]

HistViews == {"SIDE"}
HistParts == {"FACE"}
Batches(ord) == {InOrder(ord, S) : S \in SUBSET Range(ord) \ {{}}}

Budget == calls < MaxCalls

\* Each behaviour of this specification follows one entity: the handlers of
\* the part are explored while the view is as uploaded, and the handlers of
\* the view while no part sheet has been touched.
PartTurn == \A v \in HistViews : appState.views[v] = UploadedProject.views[v]
ViewTurn == \A p \in PartType : appState.generatedSheets[p] = InitialSheet

RegeneratePart == \E p \in HistParts : PartTurn /\ Budget /\ handleRegeneratePart(p)
UpscalePart == \E p \in HistParts : PartTurn /\ Budget /\ handleUpscalePart(p)
PartModification ==
    \E p \in HistParts, id \in Timestamps :
        /\ PartTurn /\ Budget
        /\ Len(appState.generatedSheets[p].modifications) < MaxMods
        /\ handlePartModification(p, id)
DeleteModification ==
    \E p \in HistParts :
        \E i \in DOMAIN appState.generatedSheets[p].modifications :
            /\ PartTurn /\ Budget
            /\ handleDeleteModification(p, appState.generatedSheets[p].modifications[i].id)
PartUndo == \E p \in HistParts : PartTurn /\ handlePartUndo(p)
PartRedo == \E p \in HistParts : PartTurn /\ handlePartRedo(p)
BatchUndoParts == \E ps \in Batches(PartOrder) : PartTurn /\ handleBatchUndoParts(ps)
BatchRedoParts == \E ps \in Batches(PartOrder) : PartTurn /\ handleBatchRedoParts(ps)
PartReturns == \E i \in DOMAIN pending, r \in Results : generatePartResolved(i, r)
UpscalePartReturns == \E i \in DOMAIN pending, r \in Results : upscalePartResolved(i, r)

RegenerateViews ==
    \E v \in HistViews : ViewTurn /\ Budget /\ handleBatchRegenerateViews(<<v>>)
UpscaleViews == \E v \in HistViews : ViewTurn /\ Budget /\ handleBatchUpscaleViews(<<v>>)
ViewModification ==
    \E v \in HistViews, id \in Timestamps :
        /\ ViewTurn /\ Budget
        /\ Len(appState.views[v].modifications) < MaxMods
        /\ handleViewModification(v, id)
DeleteViewModification ==
    \E v \in HistViews :
        \E i \in DOMAIN appState.views[v].modifications :
            /\ ViewTurn /\ Budget
            /\ handleDeleteViewModification(v, appState.views[v].modifications[i].id)
ViewUndo == \E v \in HistViews : ViewTurn /\ handleViewUndo(v)
ViewRedo == \E v \in HistViews : ViewTurn /\ handleViewRedo(v)
ViewReturns == \E i \in DOMAIN pending, r \in Results : generateViewResolved(i, r)
UpscaleViewReturns == \E i \in DOMAIN pending, r \in Results : upscaleViewResolved(i, r)

Next ==
    \/ RegeneratePart
    \/ UpscalePart
    \/ PartModification
    \/ DeleteModification
    \/ PartUndo
    \/ PartRedo
    \/ BatchUndoParts
    \/ BatchRedoParts
    \/ PartReturns
    \/ UpscalePartReturns
    \/ RegenerateViews
    \/ UpscaleViews
    \/ ViewModification
    \/ DeleteViewModification
    \/ ViewUndo
    \/ ViewRedo
    \/ ViewReturns
    \/ UpscaleViewReturns

Spec == Init /\ [][Next]_vars

\* ---------------------------------------------------------------------------
\* Specification of the in-flight guards: every dispatching handler, single
\* and batch, on views and parts, and the returns of the collaborator
\* ---------------------------------------------------------------------------
BatchViews == {<<"SIDE">>, <<"BACK">>, <<"SIDE", "BACK">>}

DispatchRegeneratePart == \E p \in HistParts : Budget /\ handleRegeneratePart(p)
DispatchUpscalePart == \E p \in HistParts : Budget /\ handleUpscalePart(p)
BatchRegenerateParts ==
    \E ps \in Batches(PartOrder) : handleBatchRegenerateParts(ps) /\ calls' <= MaxCalls
BatchUpscaleParts ==
    \E ps \in Batches(PartOrder) : handleBatchUpscaleParts(ps) /\ calls' <= MaxCalls
DispatchPartModification ==
    \E p \in HistParts, id \in Timestamps :
        /\ Budget
        /\ Len(appState.generatedSheets[p].modifications) < MaxMods
        /\ handlePartModification(p, id)
DispatchDeleteModification ==
    \E p \in HistParts :
        \E i \in DOMAIN appState.generatedSheets[p].modifications :
            Budget /\ handleDeleteModification(p, appState.generatedSheets[p].modifications[i].id)
BatchRegenerateViews ==
    \E vs \in BatchViews : handleBatchRegenerateViews(vs) /\ calls' <= MaxCalls
BatchUpscaleViews ==
    \E vs \in BatchViews : handleBatchUpscaleViews(vs) /\ calls' <= MaxCalls
DispatchViewModification ==
    \E v \in HistViews, id \in Timestamps :
        /\ Budget
        /\ Len(appState.views[v].modifications) < MaxMods
        /\ handleViewModification(v, id)
DispatchDeleteViewModification ==
    \E v \in HistViews :
        \E i \in DOMAIN appState.views[v].modifications :
            Budget /\ handleDeleteViewModification(v, appState.views[v].modifications[i].id)

NextInFlight ==
    \/ DispatchRegeneratePart
    \/ DispatchUpscalePart
    \/ BatchRegenerateParts
    \/ BatchUpscaleParts
    \/ DispatchPartModification
    \/ DispatchDeleteModification
    \/ PartReturns
    \/ UpscalePartReturns
    \/ BatchRegenerateViews
    \/ BatchUpscaleViews
    \/ DispatchViewModification
    \/ DispatchDeleteViewModification
    \/ ViewReturns
    \/ UpscaleViewReturns

SpecInFlight == Init /\ [][NextInFlight]_vars

\* ---------------------------------------------------------------------------
\* Specification of the generate-sheets run beside regenerations of the part
\* ---------------------------------------------------------------------------
\* what the analyses may find: the part in none of the views, in the front
\* view, in the side and back views, or in all four
DetViews == {{}, {"FRONT"}, {"SIDE", "BACK"}, ViewType}
Detections == {[v \in ViewType |-> IF v \in Vs THEN HistParts ELSE {}] : Vs \in DetViews}
RawDetections == {{}, HistParts}

GenerateSheets == Budget /\ handleGenerateSheets
AnalysisReturns ==
    \E det \in Detections, raw \in RawDetections :
        /\ sheetsAnalysisResolved(det, raw)
        /\ calls' <= MaxCalls

NextSheets ==
    \/ GenerateSheets
    \/ AnalysisReturns
    \/ DispatchRegeneratePart
    \/ PartReturns

SpecSheets == Init /\ [][NextSheets]_vars

\* ---------------------------------------------------------------------------
\* Specification of reference resolution: the inputs of generatePart are
\* drawn from the projects a completed generate-sheets run leaves behind,
\* under every balance and both view modes; manual references are attached
\* and removed and the part is regenerated
\* ---------------------------------------------------------------------------
\* the project after the front view was regenerated with success, or not
FrontProjects ==
    {UploadedProject}
        \cup {viewResultDone(recordViewHistory(UploadedProject, "FRONT"), "FRONT", g) :
                g \in GenImgs}

RECURSIVE doneParts(_, _, _)
doneParts(prev, parts, compositeUrl) ==
    IF parts = <<>> THEN prev
    ELSE doneParts(generatePartDone(prev, Head(parts), compositeUrl), Tail(parts),
                   compositeUrl)

FirstRun(base, balance, single) ==
    [phase |-> "analyzing", appState |-> base, referenceBalance |-> balance,
     isSingleViewMode |-> single, selectedParts |-> PartOrder]

\* the project after one generate-sheets run on base whose composite calls
\* all returned compositeUrl
analysedProject(base, balance, single, det, rawFound, compositeUrl) ==
    LET closure == FirstRun(base, balance, single)
    IN  IF Len(sheetsValidParts(closure, det, rawFound)) = 0 THEN base
        ELSE doneParts(sheetsDispatch(base, closure, det, rawFound),
                       InOrder(PartOrder, Issued(sheetsCalls(closure, det, rawFound))),
                       compositeUrl)

InitResolver ==
    /\ referenceBalance \in 0..10
    /\ isSingleViewMode \in BOOLEAN
    /\ \E base \in FrontProjects, det \in Detections, raw \in RawDetections, r \in GenImgs :
          /\ appState = analysedProject(base, referenceBalance, isSingleViewMode, det, raw, r)
          /\ selectedParts = sheetsValidParts(
                                FirstRun(base, referenceBalance, isSingleViewMode), det, raw)
    /\ processingViews = <<>>
    /\ upscalingViews = <<>>
    /\ upscalingParts = <<>>
    /\ isProcessing = FALSE
    /\ sheetsRun = IdleRun
    /\ viewsRun = IdleRun
    /\ errorMsg = NoErrorMsg
    /\ globalProgress = 0
    /\ pending = <<>>
    /\ calls = 0
    /\ lastOp = Op("init", {}, {}, {}, {})
    /\ recLog = [e \in Entities |-> <<>>]
    /\ stored = [v \in ViewType |-> SnapshotImages(appState, v)]
    /\ rt = [e \in Entities |-> RtIdle]

\* a dispatch whose sources resolve empty records history without a call:
\* the exploration stops at MaxCalls recordings beyond the first run's
RecordingBudget(p) == Len(UndoStack(appState, p)) <= MaxCalls

AddManualReference ==
    \E p \in HistParts, r \in RefImgs :
        /\ Len(appState.manualReferences[p]) < MaxRefs
        /\ handleAddManualReference(p, r)
RemoveManualReference ==
    \E p \in HistParts, i \in 1..MaxRefs : handleRemoveManualReference(p, i - 1)
ResolveRegeneratePart ==
    \E p \in HistParts : Budget /\ RecordingBudget(p) /\ handleRegeneratePart(p)

NextResolver ==
    \/ AddManualReference
    \/ RemoveManualReference
    \/ ResolveRegeneratePart
    \/ PartReturns

SpecResolver == InitResolver /\ [][NextResolver]_vars

\* ---------------------------------------------------------------------------
\* Specification of long runs of recordings on one view and one part
\* ---------------------------------------------------------------------------
LongBudget == calls < MaxRecordings

LongRegeneratePart == \E p \in HistParts : LongBudget /\ handleRegeneratePart(p)
LongRegenerateViews == \E v \in HistViews : LongBudget /\ handleBatchRegenerateViews(<<v>>)

NextBounded ==
    \/ LongRegeneratePart
    \/ PartReturns
    \/ LongRegenerateViews
    \/ ViewReturns

SpecBounded == Init /\ [][NextBounded]_vars

\* ---------------------------------------------------------------------------
\* Specification of the batch actions of the sheet: PART ACTIONS on the
\* visible parts and the batch actions on views, from the uploaded project
\* and from the project whose sheets have all been generated
\* ---------------------------------------------------------------------------
\* partOrder.filter(part => selectedParts.includes(part))
visibleParts == SelectSeq(PartOrder, LAMBDA p : Includes(selectedParts, p))

\* the uploaded project, and the project after a batch regeneration of the
\* visible parts returned an image for each
BatchProjects ==
    {UploadedProject}
        \cup {doneParts(generateParts(recordParts(UploadedProject, PartOrder), PartOrder,
                                      UploadedProject, 5, FALSE),
                        PartOrder, g) : g \in GenImgs}

InitBatch ==
    /\ appState \in BatchProjects
    /\ processingViews = <<>>
    /\ upscalingViews = <<>>
    /\ upscalingParts = <<>>
    /\ referenceBalance = 5
    /\ isSingleViewMode = FALSE
    /\ isProcessing = FALSE
    /\ selectedParts = PartOrder
    /\ sheetsRun = IdleRun
    /\ viewsRun = IdleRun
    /\ errorMsg = NoErrorMsg
    /\ globalProgress = 0
    /\ pending = <<>>
    /\ calls = 0
    /\ lastOp = Op("init", {}, {}, {}, {})
    /\ recLog = [e \in Entities |-> <<>>]
    /\ stored = [v \in ViewType |-> SnapshotImages(appState, v)]
    /\ rt = [e \in Entities |-> RtIdle]

VisibleRegenerateParts == handleBatchRegenerateParts(visibleParts) /\ calls' <= MaxCalls
VisibleUpscaleParts == handleBatchUpscaleParts(visibleParts) /\ calls' <= MaxCalls

NextBatch ==
    \/ VisibleRegenerateParts
    \/ VisibleUpscaleParts
    \/ PartReturns
    \/ UpscalePartReturns
    \/ BatchRegenerateViews
    \/ BatchUpscaleViews
    \/ ViewReturns
    \/ UpscaleViewReturns

SpecBatch == InitBatch /\ [][NextBatch]_vars

\* ---------------------------------------------------------------------------
\* Specification of the modification ledger: appends and removals on one
\* part and one view, with the sources of the part present (balance 5) or
\* empty (balance 10, no view analysed), from projects whose ledger already
\* holds earlier entries
\* ---------------------------------------------------------------------------
\* the project after handlePartModification(part, ...) and the return of its
\* call, if it made one
partAppended(prev, part, id, balance, compositeUrl) ==
    LET st == generateParts(
                  setPartModifications(recordPartHistory(prev, part), part,
                      Append(prev.generatedSheets[part].modifications, newModification(id))),
                  <<part>>, prev, balance, FALSE)
    IN  IF Len(resolveSources(prev, part, balance, FALSE)) = 0 THEN st
        ELSE generatePartDone(st, part, compositeUrl)

\* the project after handleViewModification(view, ...) and the return of its call
viewAppended(prev, view, id, newViewImage) ==
    viewResultDone(
        setViewModifications(recordViewHistory(prev, view), view,
            Append(prev.views[view].modifications, newModification(id))),
        view, newViewImage)

\* Date.now() of the appends explored, not before those of the entries the
\* ledger already holds
LaterStamps == {2, 3}

LedgerProjects(balance) ==
    UNION {LET P1 == partAppended(UploadedProject, "FACE", 1, balance, g)
               V1 == viewAppended(UploadedProject, "SIDE", 1, g)
           IN  {UploadedProject, P1, partAppended(P1, "FACE", 2, balance, g),
                V1, viewAppended(V1, "SIDE", 2, g)} : g \in GenImgs}

InitLedger ==
    /\ referenceBalance \in {5, 10}
    /\ appState \in LedgerProjects(referenceBalance)
    /\ processingViews = <<>>
    /\ upscalingViews = <<>>
    /\ upscalingParts = <<>>
    /\ isSingleViewMode = FALSE
    /\ isProcessing = FALSE
    /\ selectedParts = PartOrder
    /\ sheetsRun = IdleRun
    /\ viewsRun = IdleRun
    /\ errorMsg = NoErrorMsg
    /\ globalProgress = 0
    /\ pending = <<>>
    /\ calls = 0
    /\ lastOp = Op("init", {}, {}, {}, {})
    /\ recLog = [e \in Entities |-> <<>>]
    /\ stored = [v \in ViewType |-> SnapshotImages(appState, v)]
    /\ rt = [e \in Entities |-> RtIdle]

\* the edits explored on an entity: its ledger up to MaxLedger entries, its
\* undoStack up to MaxLedger + MaxCalls
EditBudget(e) ==
    /\ Budget
    /\ Len(UndoStack(appState, e)) < MaxLedger + MaxCalls

LedgerPartModification ==
    \E p \in HistParts, id \in LaterStamps :
        /\ EditBudget(p)
        /\ Len(appState.generatedSheets[p].modifications) < MaxLedger
        /\ handlePartModification(p, id)
LedgerDeleteModification ==
    \E p \in HistParts :
        \E i \in DOMAIN appState.generatedSheets[p].modifications :
            /\ EditBudget(p)
            /\ handleDeleteModification(p, appState.generatedSheets[p].modifications[i].id)
LedgerViewModification ==
    \E v \in HistViews, id \in LaterStamps :
        /\ EditBudget(v)
        /\ Len(appState.views[v].modifications) < MaxLedger
        /\ handleViewModification(v, id)
LedgerDeleteViewModification ==
    \E v \in HistViews :
        \E i \in DOMAIN appState.views[v].modifications :
            /\ EditBudget(v)
            /\ handleDeleteViewModification(v, appState.views[v].modifications[i].id)

NextLedger ==
    \/ LedgerPartModification
    \/ LedgerDeleteModification
    \/ LedgerViewModification
    \/ LedgerDeleteViewModification
    \/ PartReturns
    \/ ViewReturns

SpecLedger == InitLedger /\ [][NextLedger]_vars

\* ---------------------------------------------------------------------------
\* Specification of the project pipeline: handleGenerateViews on a project
\* with no upload, with the front view uploaded, or with the front and side
\* views uploaded, in either view mode, and the returns of its calls
\* ---------------------------------------------------------------------------
PipelineProjects ==
    {getInitialAppState,
     uploadView(getInitialAppState, "FRONT", UploadImg),
     uploadView(uploadView(getInitialAppState, "FRONT", UploadImg), "SIDE", UploadImg)}

InitPipeline ==
    /\ appState \in PipelineProjects
    /\ isSingleViewMode \in BOOLEAN
    /\ processingViews = <<>>
    /\ upscalingViews = <<>>
    /\ upscalingParts = <<>>
    /\ referenceBalance = 5
    /\ isProcessing = FALSE
    /\ selectedParts = PartOrder
    /\ sheetsRun = IdleRun
    /\ viewsRun = IdleRun
    /\ errorMsg = NoErrorMsg
    /\ globalProgress = 0
    /\ pending = <<>>
    /\ calls = 0
    /\ lastOp = Op("init", {}, {}, {}, {})
    /\ recLog = [e \in Entities |-> <<>>]
    /\ stored = [v \in ViewType |-> SnapshotImages(appState, v)]
    /\ rt = [e \in Entities |-> RtIdle]

GenerateViews == calls < MaxPipelineCalls /\ handleGenerateViews
PipelineViewReturns == \E i \in DOMAIN pending, r \in Results : pipelineViewResolved(i, r)
PaletteReturns == \E i \in DOMAIN pending, palette \in Palettes : paletteResolved(i, palette)

NextPipeline ==
    \/ GenerateViews
    \/ PipelineViewReturns
    \/ PaletteReturns

SpecPipeline == InitPipeline /\ [][NextPipeline]_vars

\* ---------------------------------------------------------------------------
\* Specification of custom parts: parts are added and removed beside standard
\* parts that have a history and an image, and manual references are attached
\* to and removed from the custom parts and FACE
\* ---------------------------------------------------------------------------
InitCustom ==
    /\ appState \in LedgerProjects(5)
    /\ processingViews = <<>>
    /\ upscalingViews = <<>>
    /\ upscalingParts = <<>>
    /\ referenceBalance = 5
    /\ isSingleViewMode = FALSE
    /\ isProcessing = FALSE
    /\ selectedParts = PartOrder
    /\ sheetsRun = IdleRun
    /\ viewsRun = IdleRun
    /\ errorMsg = NoErrorMsg
    /\ globalProgress = 0
    /\ pending = <<>>
    /\ calls = 0
    /\ lastOp = Op("init", {}, {}, {}, {})
    /\ recLog = [e \in Entities |-> <<>>]
    /\ stored = [v \in ViewType |-> SnapshotImages(appState, v)]
    /\ rt = [e \in Entities |-> RtIdle]

\* the parts that take manual references in this specification
ReferencedParts == (DOMAIN appState.manualReferences) \ {"HAIR"}

AddCustomPart ==
    \E newId \in CustomIds, customPartInput \in Labels :
        /\ Len(appState.customParts) < MaxCustom
        /\ handleAddCustomPart(newId, customPartInput)
RemoveCustomPart ==
    \E k \in DOMAIN appState.customParts : handleRemoveCustomPart(appState.customParts[k].id)
CustomAddReference ==
    \E p \in ReferencedParts :
        /\ Len(appState.manualReferences[p]) < MaxRefs
        /\ handleAddManualReference(p, CHOOSE img \in RefImgs : TRUE)
CustomRemoveReference ==
    \E p \in ReferencedParts :
        \E k \in DOMAIN appState.manualReferences[p] : handleRemoveManualReference(p, k - 1)

NextCustom ==
    \/ AddCustomPart
    \/ RemoveCustomPart
    \/ CustomAddReference
    \/ CustomRemoveReference

SpecCustom == InitCustom /\ [][NextCustom]_vars

\* ---------------------------------------------------------------------------
\* Specification of the view images: upload, clear and swap of FRONT, its
\* regeneration, upscale, undo and redo once the character sheet is shown,
\* and pipeline runs, in both view modes
\* ---------------------------------------------------------------------------
OtherUploadImg == 3
Uploads == {UploadImg, OtherUploadImg}
OriginViews == {"FRONT"}

\* SEMI_SIDE and BACK are uploaded and FRONT is still empty; SIDE is
\* uploaded or left to the pipeline
OriginProjects ==
    LET twoViews == uploadView(uploadView(getInitialAppState, "SEMI_SIDE", UploadImg),
                               "BACK", UploadImg)
    IN  {twoViews, uploadView(twoViews, "SIDE", UploadImg)}

InitOrigin ==
    /\ appState \in OriginProjects
    /\ isSingleViewMode \in BOOLEAN
    /\ processingViews = <<>>
    /\ upscalingViews = <<>>
    /\ upscalingParts = <<>>
    /\ referenceBalance = 5
    /\ isProcessing = FALSE
    /\ selectedParts = PartOrder
    /\ sheetsRun = IdleRun
    /\ viewsRun = IdleRun
    /\ errorMsg = NoErrorMsg
    /\ globalProgress = 0
    /\ pending = <<>>
    /\ calls = 0
    /\ lastOp = Op("init", {}, {}, {}, {})
    /\ recLog = [e \in Entities |-> <<>>]
    /\ stored = [v \in ViewType |-> SnapshotImages(appState, v)]
    /\ rt = [e \in Entities |-> RtIdle]

\* the character sheet is shown, no call is outstanding, and one call fewer
\* than MaxCalls has been issued
SheetIdle == hasAllViews /\ pending = <<>> /\ calls + 1 < MaxCalls

OriginUpload ==
    \E v \in OriginViews, base64 \in Uploads : ~isProcessing /\ handleUpload(v, base64)
OriginClear ==
    \E v \in OriginViews : appState.views[v].originalImage # Null /\ handleClear(v)
OriginSwap ==
    \E v \in OriginViews :
        /\ hasAllViews
        /\ appState.views[v].userUploadedImage # Null
        /\ appState.views[v].generatedImage # Null
        /\ handleSwapViewImage(v, IF appState.views[v].originalImage
                                       = appState.views[v].userUploadedImage
                                  THEN "generated" ELSE "user")
OriginRegenerate == \E v \in OriginViews : SheetIdle /\ handleBatchRegenerateViews(<<v>>)
OriginUpscale == \E v \in OriginViews : SheetIdle /\ handleBatchUpscaleViews(<<v>>)
OriginUndo == \E v \in OriginViews : hasAllViews /\ handleViewUndo(v)
OriginRedo == \E v \in OriginViews : hasAllViews /\ handleViewRedo(v)
OriginGenerateViews == calls < MaxPipelineCalls /\ handleGenerateViews

NextOrigin ==
    \/ OriginUpload
    \/ OriginClear
    \/ OriginSwap
    \/ OriginRegenerate
    \/ OriginUpscale
    \/ OriginUndo
    \/ OriginRedo
    \/ ViewReturns
    \/ UpscaleViewReturns
    \/ OriginGenerateViews
    \/ PipelineViewReturns
    \/ PaletteReturns

SpecOrigin == InitOrigin /\ [][NextOrigin]_vars

\* ---------------------------------------------------------------------------
\* Specification of the loading state: handlers that set each of the loading
\* flags, where every outstanding collaborator call eventually returns
\* ---------------------------------------------------------------------------
NextLoading ==
    \/ DispatchRegeneratePart
    \/ DispatchUpscalePart
    \/ DispatchViewModification
    \/ BatchUpscaleViews
    \/ PartReturns
    \/ UpscalePartReturns
    \/ ViewReturns
    \/ UpscaleViewReturns

SpecLoading ==
    /\ Init
    /\ [][NextLoading]_vars
    /\ WF_vars(PartReturns)
    /\ WF_vars(UpscalePartReturns)
    /\ WF_vars(ViewReturns)
    /\ WF_vars(UpscaleViewReturns)


\* ---------------------------------------------------------------------------
\* Specification of a generate-sheets run beside changes of a view: while the
\* analysis is outstanding the ledger of SIDE is edited, its regeneration
\* returns and its changes are undone
\* ---------------------------------------------------------------------------
RunViewModification ==
    \E v \in HistViews, id \in Timestamps :
        /\ Budget
        /\ Len(appState.views[v].modifications) < MaxMods
        /\ handleViewModification(v, id)
RunViewUndo == \E v \in HistViews : handleViewUndo(v)

NextRuns ==
    \/ GenerateSheets
    \/ AnalysisReturns
    \/ PartReturns
    \/ RunViewModification
    \/ ViewReturns
    \/ RunViewUndo

SpecRuns == Init /\ [][NextRuns]_vars

\* ---------------------------------------------------------------------------
\* Specification of undo and redo as the sheet offers them on parts: the two
\* buttons inside a part's image and the Undo All / Redo All buttons of the
\* PART ACTIONS bar, next to the dispatches and returns of part operations
\* ---------------------------------------------------------------------------
\* CharacterSheet.tsx 905-924: the buttons are rendered when
\* sheet.imgUrl && !sheet.isLoading, and disabled when the stack is empty
PartButtonsShown(p) ==
    /\ appState.generatedSheets[p].imgUrl # Null
    /\ ~appState.generatedSheets[p].isLoading

ButtonPartUndo ==
    \E p \in PartType :
        /\ PartButtonsShown(p)
        /\ Len(UndoStack(appState, p)) > 0
        /\ handlePartUndo(p)

ButtonPartRedo ==
    \E p \in PartType :
        /\ PartButtonsShown(p)
        /\ Len(RedoStack(appState, p)) > 0
        /\ handlePartRedo(p)

\* CharacterSheet.tsx 771-792: the bar is rendered when visibleParts is not
\* empty; its two buttons carry no disabled attribute
VisibleUndoParts == visibleParts # <<>> /\ handleBatchUndoParts(visibleParts)
VisibleRedoParts == visibleParts # <<>> /\ handleBatchRedoParts(visibleParts)

NextUndoUi ==
    \/ DispatchRegeneratePart
    \/ DispatchUpscalePart
    \/ VisibleRegenerateParts
    \/ VisibleUpscaleParts
    \/ PartReturns
    \/ UpscalePartReturns
    \/ ButtonPartUndo
    \/ ButtonPartRedo
    \/ VisibleUndoParts
    \/ VisibleRedoParts

SpecUndoUi == InitBatch /\ [][NextUndoUi]_vars

\* ---------------------------------------------------------------------------
\* Specification of part upscaling: the sheets of all parts hold the image of
\* an earlier generation, and the parts are upscaled (one by one and as a
\* batch), regenerated, undone and redone
\* ---------------------------------------------------------------------------
\* the composite image an earlier generate-sheets run returned
SheetImg == 5

UpscaleProject ==
    doneParts(generateParts(recordParts(UploadedProject, PartOrder), PartOrder,
                            UploadedProject, 5, FALSE),
              PartOrder, SheetImg)

InitUpscale ==
    /\ appState = UpscaleProject
    /\ processingViews = <<>>
    /\ upscalingViews = <<>>
    /\ upscalingParts = <<>>
    /\ referenceBalance = 5
    /\ isSingleViewMode = FALSE
    /\ isProcessing = FALSE
    /\ selectedParts = PartOrder
    /\ sheetsRun = IdleRun
    /\ viewsRun = IdleRun
    /\ errorMsg = NoErrorMsg
    /\ globalProgress = 0
    /\ pending = <<>>
    /\ calls = 0
    /\ lastOp = Op("init", {}, {}, {}, {})
    /\ recLog = [e \in Entities |-> <<>>]
    /\ stored = [v \in ViewType |-> SnapshotImages(appState, v)]
    /\ rt = [e \in Entities |-> RtIdle]

SpecUpscale == InitUpscale /\ [][NextUndoUi]_vars

\* ---------------------------------------------------------------------------
\* Specification of undo and redo on full history stacks: one view and one
\* part have been regenerated HISTORY_LIMIT - 1 times, and are regenerated,
\* undone and redone from there
\* ---------------------------------------------------------------------------
RECURSIVE regeneratedPart(_, _, _, _)
regeneratedPart(prev, part, n, compositeUrl) ==
    IF n = 0 THEN prev
    ELSE LET before == regeneratedPart(prev, part, n - 1, compositeUrl)
         IN  doneParts(generateParts(recordParts(before, <<part>>), <<part>>, before,
                                     5, FALSE),
                       <<part>>, compositeUrl)

RECURSIVE regeneratedView(_, _, _, _)
regeneratedView(prev, view, n, newViewImage) ==
    IF n = 0 THEN prev
    ELSE viewResultDone(recordViewHistory(regeneratedView(prev, view, n - 1, newViewImage),
                                          view),
                        view, newViewImage)

FullProjects ==
    {regeneratedPart(UploadedProject, p, HISTORY_LIMIT - 1, g) :
        p \in HistParts, g \in GenImgs}
    \cup {regeneratedView(UploadedProject, v, HISTORY_LIMIT - 1, g) :
            v \in HistViews, g \in GenImgs}

InitFull ==
    /\ appState \in FullProjects
    /\ processingViews = <<>>
    /\ upscalingViews = <<>>
    /\ upscalingParts = <<>>
    /\ referenceBalance = 5
    /\ isSingleViewMode = FALSE
    /\ isProcessing = FALSE
    /\ selectedParts = PartOrder
    /\ sheetsRun = IdleRun
    /\ viewsRun = IdleRun
    /\ errorMsg = NoErrorMsg
    /\ globalProgress = 0
    /\ pending = <<>>
    /\ calls = 0
    /\ lastOp = Op("init", {}, {}, {}, {})
    /\ recLog = [e \in Entities |-> <<>>]
    /\ stored = [v \in ViewType |-> SnapshotImages(appState, v)]
    /\ rt = [e \in Entities |-> RtIdle]

\* each behaviour follows the entity its project has regenerated
FullPart == \A v \in HistViews : appState.views[v].history = EmptyHistory
FullView == \A p \in HistParts : appState.generatedSheets[p].history = EmptyHistory

NextFull ==
    \/ FullPart /\ DispatchRegeneratePart
    \/ PartReturns
    \/ \E p \in HistParts : FullPart /\ handlePartUndo(p)
    \/ \E p \in HistParts : FullPart /\ handlePartRedo(p)
    \/ FullView /\ (\E v \in HistViews : Budget /\ handleBatchRegenerateViews(<<v>>))
    \/ ViewReturns
    \/ \E v \in HistViews : FullView /\ handleViewUndo(v)
    \/ \E v \in HistViews : FullView /\ handleViewRedo(v)

SpecFull == InitFull /\ [][NextFull]_vars

\* ---------------------------------------------------------------------------
\* Specification of history operations next to operations in flight: the
\* face and a view are regenerated, and any part, the visible parts together
\* and the view are undone and redone meanwhile
\* ---------------------------------------------------------------------------
CanUndo(e) == Len(UndoStack(appState, e)) > 0
CanRedo(e) == Len(RedoStack(appState, e)) > 0

NextFrame ==
    \/ DispatchRegeneratePart
    \/ PartReturns
    \/ \E v \in HistViews : Budget /\ handleBatchRegenerateViews(<<v>>)
    \/ ViewReturns
    \/ \E p \in PartType : CanUndo(p) /\ handlePartUndo(p)
    \/ \E p \in PartType : CanRedo(p) /\ handlePartRedo(p)
    \/ handleBatchUndoParts(visibleParts)
    \/ handleBatchRedoParts(visibleParts)
    \/ \E v \in HistViews : CanUndo(v) /\ handleViewUndo(v)
    \/ \E v \in HistViews : CanRedo(v) /\ handleViewRedo(v)

SpecFrame == InitUpscale /\ [][NextFrame]_vars

\* ---------------------------------------------------------------------------
\* Specification of view undo and redo around the project pipeline: the
\* sheets were generated (parts detected in every view), the side view is
\* still there or was cleared, and the pipeline runs again where the main
\* button offers it
\* ---------------------------------------------------------------------------
DetectedProjects ==
    LET everywhere == [v \in ViewType |-> HistParts]
        analysed == {analysedProject(base, 5, FALSE, everywhere, HistParts, g) :
                        base \in FrontProjects, g \in GenImgs}
    IN  analysed \cup {clearView(st, "SIDE") : st \in analysed}

InitDetected ==
    /\ appState \in DetectedProjects
    /\ processingViews = <<>>
    /\ upscalingViews = <<>>
    /\ upscalingParts = <<>>
    /\ referenceBalance = 5
    /\ isSingleViewMode = FALSE
    /\ isProcessing = FALSE
    /\ selectedParts = PartOrder
    /\ sheetsRun = IdleRun
    /\ viewsRun = IdleRun
    /\ errorMsg = NoErrorMsg
    /\ globalProgress = 0
    /\ pending = <<>>
    /\ calls = 0
    /\ lastOp = Op("init", {}, {}, {}, {})
    /\ recLog = [e \in Entities |-> <<>>]
    /\ stored = [v \in ViewType |-> SnapshotImages(appState, v)]
    /\ rt = [e \in Entities |-> RtIdle]

SheetViewUndo == \E v \in ViewType : hasAllViews /\ CanUndo(v) /\ handleViewUndo(v)
SheetViewRedo == \E v \in ViewType : hasAllViews /\ CanRedo(v) /\ handleViewRedo(v)

NextDetected ==
    \/ GenerateViews
    \/ PipelineViewReturns
    \/ PaletteReturns
    \/ SheetViewUndo
    \/ SheetViewRedo

SpecDetected == InitDetected /\ [][NextDetected]_vars

\* ---------------------------------------------------------------------------
\* Specification of the removal of custom parts beside their operations: the
\* project has custom parts with a manual reference each; they are
\* regenerated, upscaled and removed, and their calls return
\* ---------------------------------------------------------------------------
RECURSIVE withCustomParts(_, _)
withCustomParts(prev, ids) ==
    IF ids = <<>> THEN prev
    ELSE LET added == addCustomPart(withCustomParts(prev, Front(ids)), Last(ids), "hat")
         IN  [added EXCEPT !.manualReferences[Last(ids)] =
                            Append(@, CHOOSE img \in RefImgs : TRUE)]

CustomLists == {<<"custom_1">>, <<"custom_1", "custom_2">>}

InitRemoval ==
    /\ \E ids \in CustomLists :
          /\ appState = withCustomParts(UploadedProject, ids)
          /\ selectedParts = PartOrder \o ids
    /\ processingViews = <<>>
    /\ upscalingViews = <<>>
    /\ upscalingParts = <<>>
    /\ referenceBalance = 5
    /\ isSingleViewMode = FALSE
    /\ isProcessing = FALSE
    /\ sheetsRun = IdleRun
    /\ viewsRun = IdleRun
    /\ errorMsg = NoErrorMsg
    /\ globalProgress = 0
    /\ pending = <<>>
    /\ calls = 0
    /\ lastOp = Op("init", {}, {}, {}, {})
    /\ recLog = [e \in Entities |-> <<>>]
    /\ stored = [v \in ViewType |-> SnapshotImages(appState, v)]
    /\ rt = [e \in Entities |-> RtIdle]

\* the custom parts the sheet shows a card for
ListedCustomIds == {appState.customParts[k].id : k \in DOMAIN appState.customParts}

CustomRegeneratePart == \E id \in ListedCustomIds : Budget /\ handleRegeneratePart(id)
CustomUpscalePart == \E id \in ListedCustomIds : Budget /\ handleUpscalePart(id)

NextRemoval ==
    \/ CustomRegeneratePart
    \/ CustomUpscalePart
    \/ PartReturns
    \/ UpscalePartReturns
    \/ RemoveCustomPart

SpecRemoval == InitRemoval /\ [][NextRemoval]_vars

\* ---------------------------------------------------------------------------
\* Properties
\* ---------------------------------------------------------------------------
\* the whole record of an entity: visible fields, history, loading state
Slot(st, e) == IF e \in ViewType THEN st.views[e] ELSE st.generatedSheets[e]

\* the collaborator calls issued by the step
NewCalls == SubSeq(pending', Len(pending') - (calls' - calls) + 1, Len(pending'))

\* the outstanding regeneration calls of entity e
Regenerations(e) ==
    {i \in DOMAIN pending : pending[i].target = e
                            /\ pending[i].kind \in {"composite", "generateView"}}

\* the step pushed a history snapshot for entity e
Recorded(e) == recLog'[e] # recLog[e] /\ recLog'[e] # <<>>

UndoRedoTags == {"undo", "redo", "undoEmpty", "redoEmpty", "undoPartly", "redoPartly"}

\* C1 (SpecBounded): after more than HISTORY_LIMIT successive recordings on
\* an entity with no undo in between, its undoStack has exactly HISTORY_LIMIT
\* entries: the most recent pre-mutation snapshots, oldest first; up to the
\* limit it holds every snapshot recorded.
C1_BoundedHistory ==
    \A e \in Entities :
        /\ Len(UndoStack(appState, e)) <= HISTORY_LIMIT
        /\ Len(recLog[e]) <= HISTORY_LIMIT => UndoStack(appState, e) = recLog[e]
        /\ Len(recLog[e]) > HISTORY_LIMIT =>
              /\ Len(UndoStack(appState, e)) = HISTORY_LIMIT
              /\ UndoStack(appState, e) = LastN(recLog[e], HISTORY_LIMIT)

\* a part recorded more than HISTORY_LIMIT times, the evicted snapshot
\* differing from the oldest one kept
C1_Witness ==
    /\ Len(recLog["FACE"]) > HISTORY_LIMIT
    /\ recLog["FACE"][1] # UndoStack(appState, "FACE")[1]

\* C2 (Spec): after a recorded operation on an entity took it from visible
\* state s0 to s1 and completed, with no other operation on the entity in
\* between, undo shows exactly s0 and a following redo exactly s1.
C2_UndoRedoRoundTrip ==
    \A e \in Entities :
        /\ rt[e].phase = "undone" => Visible(appState, e) = rt[e].s0
        /\ rt[e].phase = "redone" => Visible(appState, e) = rt[e].s1

\* a part undone and redone across a change of both its image and its ledger
C2_Witness ==
    /\ rt["FACE"].phase = "redone"
    /\ rt["FACE"].s0.imgUrl # rt["FACE"].s1.imgUrl
    /\ rt["FACE"].s0.modifications # rt["FACE"].s1.modifications

\* C3 (Spec): a step that records history for an entity whose redoStack is
\* not empty (a regenerate, upscale, ledger append or remove after an undo)
\* leaves that redoStack empty.
C3_RedoInvalidation ==
    [][\A e \in Entities :
          (Recorded(e) /\ Len(RedoStack(appState, e)) > 0)
              => RedoStack(appState', e) = <<>>]_vars

\* a recording just emptied a redoStack that an undo had filled
C3_Witness ==
    /\ lastOp.tag = "cleared"
    /\ \A e \in lastOp.ids : RedoStack(appState, e) = <<>> /\ UndoStack(appState, e) # <<>>

\* C4 (Spec): undo with an empty undoStack and redo with an empty redoStack
\* leave the whole store unchanged; in a batch, every part with nothing to
\* restore keeps its visible fields and both stacks.
C4_EmptyUndoRedoNoOp ==
    [][/\ lastOp'.tag \in {"undoEmpty", "redoEmpty"} => appState' = appState
       /\ lastOp'.tag \in {"undoPartly", "redoPartly"} =>
             \A e \in lastOp'.ids : Slot(appState', e) = Slot(appState, e)]_vars

\* a redo found nothing to restore on a part that has history
C4_Witness ==
    /\ lastOp.tag = "redoEmpty"
    /\ \E e \in lastOp.ids : UndoStack(appState, e) # <<>>

\* C5 (Spec): a step that undoes or redoes (one entity or a batch, with or
\* without something to restore) issues no collaborator call and changes no
\* isLoading flag and no in-flight set.
C5_UndoRedoLocal ==
    [][lastOp'.tag \in UndoRedoTags
       => /\ calls' = calls
          /\ pending' = pending
          /\ processingViews' = processingViews
          /\ upscalingViews' = upscalingViews
          /\ upscalingParts' = upscalingParts
          /\ isProcessing' = isProcessing
          /\ \A p \in PartType :
                appState'.generatedSheets[p].isLoading = appState.generatedSheets[p].isLoading]_vars

\* a part undone while its collaborator call is outstanding
C5_Witness ==
    \E p \in PartType :
        /\ HasPending(p)
        /\ appState.generatedSheets[p].isLoading
        /\ RedoStack(appState, p) # <<>>

\* C6 (SpecResolver): the sources of a composite call dispatched with
\* balance 0 hold no per-view crop; with balance 10 neither the original
\* crop nor the raw front upload; with a balance in between every crop of
\* the active views, the original crop or else the raw upload, and the
\* style prompt carries a weighting note.
C6_BalanceBoundaries ==
    [][\A i \in DOMAIN NewCalls :
          LET c == NewCalls[i]
              p == c.target
              crops == {appState.views[v].parts[p] :
                          v \in Range(viewsToCheck(isSingleViewMode))} \ {Null}
              original == IF appState.originalParts[p] # Null
                          THEN appState.originalParts[p]
                          ELSE appState.views["FRONT"].userUploadedImage
          IN  c.kind = "composite" =>
                /\ referenceBalance = 0 =>
                      \A v \in ViewType : ViewCropImg(v) \notin Range(c.images)
                /\ referenceBalance = 10 =>
                      /\ OrigCropImg \notin Range(c.images)
                      /\ UploadImg \notin Range(c.images)
                /\ (0 < referenceBalance /\ referenceBalance < 10) =>
                      /\ crops \subseteq Range(c.images)
                      /\ original # Null => original \in Range(c.images)
                      /\ c.stylePrompt.note # <<>>]_vars

\* a call at the upper boundary: view crops only, though an original crop
\* and the raw upload exist
C6_Witness ==
    /\ referenceBalance = 10
    /\ appState.originalParts["FACE"] # Null
    /\ appState.views["FRONT"].userUploadedImage # Null
    /\ \E i \in DOMAIN pending :
          /\ pending[i].kind = "composite"
          /\ ViewCropImg("SIDE") \in Range(pending[i].images)
          /\ Range(pending[i].images) \cap {OrigCropImg, UploadImg} = {}

\* C7 (SpecResolver): when generatePart is run for a part whose sources
\* resolve empty, the part's imgUrl becomes null, its isLoading false, and
\* no collaborator call is issued.
C7_EmptySourceShortCircuit ==
    [][\A p \in PartType :
          (Recorded(p)
           /\ resolveSources(appState, p, referenceBalance, isSingleViewMode) = <<>>)
          => /\ appState'.generatedSheets[p].imgUrl = Null
             /\ ~appState'.generatedSheets[p].isLoading
             /\ pending' = pending
             /\ calls' = calls]_vars

\* a regeneration with no sources just reset a sheet that had an image
C7_Witness ==
    /\ lastOp.tag = "short"
    /\ \A p \in lastOp.ids :
          /\ appState.generatedSheets[p].imgUrl = Null
          /\ Last(UndoStack(appState, p)).imgUrl # Null
          /\ ~HasPending(p)

\* C8 (SpecResolver): under every balance and view mode the sources of a
\* composite call end with all manual references of the part, in the order
\* of the store, after every other source; and the store keeps them in the
\* order they were attached (a reference is attached at the end, a removal
\* keeps the order of the others).
C8_ManualReferencesLast ==
    [][/\ \A i \in DOMAIN NewCalls :
             LET c == NewCalls[i]
                 refs == appState.manualReferences[c.target]
                 n == Len(c.images) - Len(refs)
             IN  c.kind = "composite" =>
                   /\ n >= 0
                   /\ SubSeq(c.images, n + 1, Len(c.images)) = refs
                   /\ \A j \in 1..n : c.images[j] \notin RefImgs
       /\ \A p \in PartType :
             LET old == appState.manualReferences[p]
                 new == appState'.manualReferences[p]
             IN  new # old =>
                   \/ \E r \in RefImgs : new = Append(old, r)
                   \/ \E k \in DOMAIN old : new = RemoveAt(old, k)]_vars

\* a call at balance 0 whose sources are the raw upload followed by two
\* different manual references
C8_Witness ==
    /\ referenceBalance = 0
    /\ \E i \in DOMAIN pending :
          /\ pending[i].kind = "composite"
          /\ pending[i].images = <<UploadImg, 31, 30>>

\* C9 (SpecSheets): at most one regeneration call is outstanding for an
\* entity, whichever path dispatched it.
C9_InFlightIdempotence ==
    \A e \in Entities : Cardinality(Regenerations(e)) <= 1

\* C10 (SpecInFlight): a request turned away because its entity is in flight
\* leaves that entity's record (history, ledger, image, loading state) as it
\* was and adds no call for it; and a step in which a call returns issues no
\* call, so nothing was queued behind it.
C10_RejectedIsNoOp ==
    [][/\ lastOp'.tag = "rejected" =>
             \A e \in lastOp'.ids :
                 /\ Slot(appState', e) = Slot(appState, e)
                 /\ \A i \in DOMAIN NewCalls : NewCalls[i].target # e
       /\ Len(pending') < Len(pending) =>
             /\ calls' = calls
             /\ Len(pending') = Len(pending) - 1]_vars

\* in a batch one part was turned away while its sibling was dispatched
C10_Witness ==
    /\ lastOp.tag = "rejected"
    /\ lastOp.ids = {"FACE"}
    /\ HasPending("FACE")
    /\ HasPending("HAIR")

\* C11 (SpecBatch): batch isolation.  When the call of one part of a batch
\* of regenerations or upscales returns, with an image or with null, the part
\* that got an image ends with isLoading = false and that image as imgUrl,
\* every other part keeps its image, its ledger, its history and its loading
\* state, and the calls of the other parts stay outstanding: a failure
\* neither cancels nor rolls back a sibling.
C11_BatchIsolation ==
    [][\A i \in DOMAIN pending, r \in Results :
          (generatePartResolved(i, r) \/ upscalePartResolved(i, r)) =>
              LET e == pending[i].target
              IN  /\ r # Null =>
                        /\ appState'.generatedSheets[e].imgUrl = r
                        /\ ~appState'.generatedSheets[e].isLoading
                  /\ \A p \in PartType \ {e} :
                        appState'.generatedSheets[p] = appState.generatedSheets[p]
                  /\ \A j \in DOMAIN pending :
                        j # i => \E k \in DOMAIN pending' : pending'[k] = pending[j]]_vars

\* both visible parts were dispatched in one batch, the call of FACE has
\* failed, and HAIR has completed with the image of its own call
C11_Witness ==
    /\ calls = 2
    /\ pending = <<>>
    /\ \A p \in PartType : Len(recLog[p]) = 1
    /\ appState.generatedSheets["FACE"].imgUrl = Null
    /\ ~appState.generatedSheets["FACE"].isLoading
    /\ appState.generatedSheets["HAIR"].imgUrl \in GenImgs
    /\ ~appState.generatedSheets["HAIR"].isLoading

\* C12 (SpecInFlight): when generateCompositeSheet returns null for a part
\* whose sources were not empty, the part ends with isLoading = false and the
\* imgUrl it had before the attempt.
C12_FailureKeepsImage ==
    [][\A i \in DOMAIN pending :
          generatePartResolved(i, Null) =>
              LET e == pending[i].target
              IN  /\ Len(pending[i].images) > 0
                  /\ ~appState'.generatedSheets[e].isLoading
                  /\ appState'.generatedSheets[e].imgUrl
                        = appState.generatedSheets[e].imgUrl]_vars

\* the modification ledger of an entity
LedgerOf(st, e) == Visible(st, e).modifications

\* the entity has something to regenerate from
HasSources(e) ==
    IF e \in ViewType THEN sourceImage(appState, e) # Null
    ELSE Len(resolveSources(appState, e, referenceBalance, isSingleViewMode)) > 0

\* the calls the step issued for entity e
NewCallsFor(e) == SelectSeq(NewCalls, LAMBDA c : c.target = e)

\* C13 (SpecLedger): ledger causality.  A step that appends to or removes
\* from the ledger of a part or a view that has sources invokes the
\* collaborator once for that entity, and the ledger the call carries is the
\* ledger after the edit, never the one before it.
C13_LedgerCausality ==
    [][\A e \in Entities :
          LedgerOf(appState', e) # LedgerOf(appState, e) =>
              /\ \A k \in DOMAIN NewCallsFor(e) :
                    /\ NewCallsFor(e)[k].modifications = LedgerOf(appState', e)
                    /\ NewCallsFor(e)[k].modifications # LedgerOf(appState, e)
              /\ HasSources(e) => Len(NewCallsFor(e)) = 1]_vars

\* m2 was appended to the ledger [m1] of the part: the snapshot on top of
\* the undoStack holds [m1], and the outstanding call carries [m1, m2]
C13_Witness ==
    \E i \in DOMAIN pending :
        /\ pending[i].target = "FACE"
        /\ Len(pending[i].modifications) = 2
        /\ pending[i].modifications = appState.generatedSheets["FACE"].modifications
        /\ Last(UndoStack(appState, "FACE")).modifications = Front(pending[i].modifications)

\* C14 (SpecLedger): every accepted append to or removal from the ledger of
\* a view or a part issues a generation call for that entity.
C14_EditRegenerates ==
    [][\A e \in Entities :
          LedgerOf(appState', e) # LedgerOf(appState, e) => Len(NewCallsFor(e)) >= 1]_vars

\* new is old without the entries whose id is id: no entry of new has that
\* id, and the entries of new are the other entries of old, each unchanged
\* and in the order they have in old
RemovedById(old, new, id) ==
    /\ \A k \in DOMAIN new : new[k].id # id
    /\ \E f \in [DOMAIN new -> DOMAIN old] :
          /\ \A k \in DOMAIN new : old[f[k]] = new[k]
          /\ \A k, l \in DOMAIN new : k < l => f[k] < f[l]
          /\ \A i \in DOMAIN old : (\A k \in DOMAIN new : f[k] # i) => old[i].id = id

\* C15 (SpecLedger): a step that changes the ledger of a part or a view
\* either appends one entry after the entries it had, or removes exactly the
\* entries of one id and keeps the others unchanged, ids included, in the
\* order they were appended.
C15_LedgerOrder ==
    [][\A e \in Entities :
          LET old == LedgerOf(appState, e)
              new == LedgerOf(appState', e)
          IN  new # old =>
                  \/ Len(new) = Len(old) + 1 /\ Front(new) = old
                  \/ \E i \in DOMAIN old : RemovedById(old, new, old[i].id)]_vars

\* the entry 2 was removed from the ledger 1, 2, 3 of the part, leaving 1, 3
C15_Witness ==
    /\ Len(UndoStack(appState, "FACE")) > 0
    /\ LET old == Last(UndoStack(appState, "FACE")).modifications
           new == appState.generatedSheets["FACE"].modifications
       IN  /\ Len(old) = 3 /\ Len(new) = 2
           /\ <<old[1].id, old[2].id, old[3].id>> = <<1, 2, 3>>
           /\ <<new[1].id, new[2].id>> = <<1, 3>>

\* C16 (SpecInFlight): when the generation call of a view regeneration
\* returns an image, originalImage and generatedImage of that view both
\* become that image and its userUploadedImage stays as it was; when it
\* returns null, none of the three changes.
C16_ViewResultFrame ==
    [][\A i \in DOMAIN pending, r \in Results :
          generateViewResolved(i, r) =>
              LET old == appState.views[pending[i].target]
                  new == appState'.views[pending[i].target]
              IN  /\ new.userUploadedImage = old.userUploadedImage
                  /\ r # Null => new.originalImage = r /\ new.generatedImage = r
                  /\ r = Null => /\ new.originalImage = old.originalImage
                                 /\ new.generatedImage = old.generatedImage]_vars

\* the regeneration of SIDE has returned an image: both image fields hold
\* it and the upload is still there
C16_Witness ==
    /\ ~HasPending("SIDE")
    /\ appState.views["SIDE"].originalImage \in GenImgs
    /\ appState.views["SIDE"].generatedImage = appState.views["SIDE"].originalImage
    /\ appState.views["SIDE"].userUploadedImage = UploadImg

\* C17 (Spec): a view regeneration pushes the snapshot of the view's visible
\* state in the step that dispatches its call; a call that returns null
\* changes neither the undoStack nor the visible fields, so the new entry
\* holds the pre-attempt state; and undoing after such a failed regeneration
\* leaves originalImage, generatedImage and modifications as they were.
C17_SnapshotBeforeDispatch ==
    [][\A v \in ViewType :
          /\ (/\ Len(NewCallsFor(v)) > 0
              /\ LedgerOf(appState', v) = LedgerOf(appState, v)
              /\ NewCallsFor(v)[1].kind = "generateView")
                => /\ UndoStack(appState', v)
                        = PushBounded(UndoStack(appState, v), Visible(appState, v))
                   /\ Visible(appState', v) = Visible(appState, v)
          /\ (\E i \in DOMAIN pending :
                 pending[i].target = v /\ generateViewResolved(i, Null))
                => /\ UndoStack(appState', v) = UndoStack(appState, v)
                   /\ Visible(appState', v) = Visible(appState, v)
          /\ (/\ rt[v].phase = "done" /\ rt[v].s1 = rt[v].s0
              /\ lastOp'.tag = "undo"
              /\ Len(UndoStack(appState', v)) < Len(UndoStack(appState, v)))
                => Visible(appState', v) = Visible(appState, v)]_vars

\* the regeneration of SIDE failed and was then undone: the view shows what
\* it showed before the attempt, and the undone state waits on the redoStack
C17_Witness ==
    /\ rt["SIDE"].phase = "undone"
    /\ rt["SIDE"].s1 = rt["SIDE"].s0
    /\ Visible(appState, "SIDE") = rt["SIDE"].s0
    /\ LedgerOf(appState, "SIDE") = <<>>
    /\ UndoStack(appState, "SIDE") = <<>>
    /\ Len(RedoStack(appState, "SIDE")) = 1
    /\ calls = 1

\* C18 (SpecBatch): in a batch regeneration or upscale of views or parts,
\* each id for which a call is issued gets exactly one snapshot, pushed in
\* the step that issues its call and holding the visible state the id had
\* before the operation; an id filtered out of the batch, or not in it, gets
\* none, and neither does any id when a call returns.
C18_SnapshotPerId ==
    [][\A e \in Entities :
          IF Len(NewCallsFor(e)) > 0
          THEN /\ Len(NewCallsFor(e)) = 1
               /\ UndoStack(appState', e)
                    = PushBounded(UndoStack(appState, e), Visible(appState, e))
          ELSE UndoStack(appState', e) = UndoStack(appState, e)]_vars

\* a batch regeneration of SIDE and BACK while SIDE was still processing:
\* SIDE was filtered out and keeps its one snapshot, BACK got its own
C18_Witness ==
    /\ lastOp = [tag |-> "rejected", ids |-> {"SIDE"}]
    /\ Len(pending) = 2
    /\ pending[1].target = "SIDE" /\ pending[2].target = "BACK"
    /\ Len(UndoStack(appState, "SIDE")) = 1
    /\ UndoStack(appState, "BACK") = <<Visible(appState, "BACK")>>

\* the targets of the pipeline calls in a sequence of calls
PipelineTargets(callSeq) ==
    {callSeq[k].target : k \in {n \in DOMAIN callSeq :
                                  callSeq[n].kind \in {"pipelineView", "extractColorPalette"}}}

\* the pipeline calls that returned in the step
PipelineReturned == PipelineTargets(pending) \ PipelineTargets(pending')

\* C19 (SpecPipeline): when a generation call of the project pipeline
\* returns null, the remaining phases are aborted: no later phase's call is
\* issued and an error message is shown, and every view that held a generated
\* image still holds one.
C19_FailureAborts ==
    [][\A i \in DOMAIN pending :
          pipelineViewResolved(i, Null) =>
              /\ PipelineTargets(NewCalls) = {}
              /\ errorMsg' # NoErrorMsg
              /\ \A v \in ViewType :
                    appState.views[v].generatedImage # Null
                        => appState'.views[v].generatedImage # Null]_vars

\* C20 (SpecPipeline): in multi-view mode the calls of the pipeline are
\* issued in phase order: SEMI_SIDE first and alone; FRONT in the step in
\* which SEMI_SIDE returns; SIDE and BACK together, in the step in which FRONT
\* returns; palette extraction in the step in which the second of SIDE and
\* BACK returns.  Calls of two phases are never outstanding together.
C20_PhaseOrder ==
    [][~isSingleViewMode =>
          LET issued == PipelineTargets(NewCalls)
              after == PipelineTargets(pending')
          IN  /\ "SEMI_SIDE" \in issued =>
                    PipelineTargets(pending) = {} /\ after = {"SEMI_SIDE"}
              /\ "FRONT" \in issued =>
                    PipelineReturned = {"SEMI_SIDE"} /\ after = {"FRONT"}
              /\ issued \cap {"SIDE", "BACK"} # {} =>
                    /\ issued = {"SIDE", "BACK"}
                    /\ PipelineReturned = {"FRONT"}
                    /\ after = {"SIDE", "BACK"}
              /\ "PALETTE" \in issued =>
                    /\ PipelineReturned # {}
                    /\ viewsRun.returned \cup PipelineReturned = {"SIDE", "BACK"}
                    /\ after = {"PALETTE"}]_vars

\* a multi-view run at its last phase: the four views hold generated
\* images and only the palette call is outstanding
C20_Witness ==
    /\ ~isSingleViewMode
    /\ viewsRun.phase = "palette"
    /\ PipelineTargets(pending) = {"PALETTE"}
    /\ calls = 5
    /\ \A v \in ViewType : appState.views[v].originalImage \in GenImgs

\* every generation call of a multi-view run returned an image
AllSucceeded(run) ==
    /\ ~run.isSingleViewMode
    /\ run.threeQuarterRef # Null
    /\ run.normalizedFront # Null
    /\ run.sideImg # Null
    /\ run.backImg # Null

\* the four views hold an originalImage and the run is over
PipelineDone(st, processing) ==
    /\ \A v \in ViewType : st.views[v].originalImage # Null
    /\ ~processing

\* C21 (SpecPipeline): a multi-view run in which every generation call
\* returned an image ends with a non-null originalImage in each of SEMI_SIDE,
\* FRONT, SIDE and BACK and with isProcessing false; when the run extracted
\* the palette, colorPalette is the list extractColorPalette returned.
C21_EndToEnd ==
    [][/\ \A i \in DOMAIN pending, palette \in Palettes :
             paletteResolved(i, palette) /\ AllSucceeded(viewsRun) =>
                 /\ PipelineDone(appState', isProcessing')
                 /\ appState'.colorPalette = palette
       /\ \A i \in DOMAIN pending, r \in Results :
             (/\ pipelineViewResolved(i, r)
              /\ viewsRun' = IdleRun
              /\ AllSucceeded(runAfter(viewsRun, pending[i].target, r))) =>
                 PipelineDone(appState', isProcessing')]_vars

\* the end of a run that started from the uploaded front image alone: five
\* calls were issued, every view holds a generated image and the palette is
\* the extracted one
C21_Witness ==
    /\ ~isSingleViewMode
    /\ viewsRun = IdleRun
    /\ ~isProcessing
    /\ calls = 5
    /\ pending = <<>>
    /\ \A v \in ViewType : appState.views[v].originalImage \in GenImgs
    /\ appState.views["FRONT"].userUploadedImage = UploadImg
    /\ appState.views["SIDE"].userUploadedImage = Null
    /\ appState.colorPalette = <<"#0F4C81">>

\* FRONT has neither an uploaded nor an original image
NoFrontSource ==
    /\ appState.views["FRONT"].userUploadedImage = Null
    /\ appState.views["FRONT"].originalImage = Null

\* C22 (SpecPipeline): when handleGenerateViews is started while FRONT has
\* neither userUploadedImage nor originalImage, an error message is set,
\* isProcessing is false afterwards, no collaborator call is issued and the
\* project (views, histories, sheets) is unchanged.
C22_InputError ==
    [][(handleGenerateViews /\ NoFrontSource) =>
          /\ errorMsg' # NoErrorMsg
          /\ ~isProcessing'
          /\ calls' = calls
          /\ pending' = pending
          /\ viewsRun' = IdleRun
          /\ appState' = appState]_vars

\* the input error was reported on a project without a front image
C22_Witness ==
    /\ NoFrontSource
    /\ errorMsg = "error_no_ref"
    /\ ~isProcessing
    /\ calls = 0

\* the values setGlobalProgress is called with in handleGenerateViews
Checkpoints == {0, 5, 35, 65, 90, 100}

\* a handleGenerateViews run is in progress in state (run, processing)
PipelineRunning(run, processing) == processing /\ run.phase # "idle"

\* C23 (SpecPipeline): while a handleGenerateViews run is in progress
\* globalProgress is one of the checkpoints 0, 5, 35, 65, 90, 100 and never
\* decreases from one step to the next; it goes back to 0 only in the step
\* that clears isProcessing.
C23_Progress ==
    [][/\ PipelineRunning(viewsRun', isProcessing') =>
             /\ globalProgress' \in Checkpoints
             /\ globalProgress' >= globalProgress
       /\ (PipelineRunning(viewsRun, isProcessing) /\ globalProgress' < globalProgress) =>
             /\ globalProgress' = 0
             /\ ~isProcessing']_vars

\* a run that has gone through the checkpoints up to 90 and awaits the palette
C23_Witness ==
    /\ PipelineRunning(viewsRun, isProcessing)
    /\ viewsRun.phase = "palette"
    /\ globalProgress = 90

\* the outstanding collaborator operations of part p: composite generations
\* and upscales
PartOperations(p) ==
    {i \in DOMAIN pending :
        /\ pending[i].target = p
        /\ pending[i].kind \in {"composite", "upscalePart", "batchUpscalePart"}}

\* C24 (SpecSheets): at any time at most one collaborator operation, composite
\* generation or upscale, is outstanding for a part, whichever handlers
\* dispatched the operations.
C24_OnePerPart ==
    \A p \in PartType : Cardinality(PartOperations(p)) <= 1

\* C25 (SpecCustom): handleRemoveCustomPart(id) takes id out of customParts,
\* generatedSheets and manualReferences, keeps the other custom parts in their
\* order, and leaves the sheet, history and manual references of every other
\* part as they were.
C25_RemoveCascades ==
    [][\A id \in CustomIds :
          handleRemoveCustomPart(id) =>
              /\ \A k \in DOMAIN appState'.customParts : appState'.customParts[k].id # id
              /\ appState'.customParts = SelectSeq(appState.customParts, LAMBDA p : p.id # id)
              /\ DOMAIN appState'.generatedSheets = DOMAIN appState.generatedSheets \ {id}
              /\ DOMAIN appState'.manualReferences = DOMAIN appState.manualReferences \ {id}
              /\ \A p \in DOMAIN appState.generatedSheets \ {id} :
                    appState'.generatedSheets[p] = appState.generatedSheets[p]
              /\ \A p \in DOMAIN appState.manualReferences \ {id} :
                    appState'.manualReferences[p] = appState.manualReferences[p]
              /\ appState'.views = appState.views]_vars

\* custom_1 was removed while it had a manual reference; custom_2, with a
\* reference of its own, and FACE, with an image and a history, remain
C25_Witness ==
    /\ lastOp = [tag |-> "removed", ids |-> {"custom_1"}]
    /\ "custom_1" \notin DOMAIN appState.generatedSheets
    /\ "custom_1" \notin DOMAIN appState.manualReferences
    /\ "custom_2" \in DOMAIN appState.generatedSheets
    /\ Len(appState.manualReferences["custom_2"]) > 0
    /\ Len(appState.customParts) = 1
    /\ appState.generatedSheets["FACE"].imgUrl # Null
    /\ Len(appState.generatedSheets["FACE"].history.undoStack) > 0
    /\ Len(selectedParts) = 3

\* the history variable stored covers the snapshots now on the stacks
StoredCovers == \A v \in ViewType : SnapshotImages(appState, v) \subseteq stored[v]

\* C26 (SpecOrigin): in every reachable state the originalImage of a view is
\* null, or its userUploadedImage, or its generatedImage, or the originalImage
\* of a snapshot that was at some time on one of its history stacks.
C26_NoOrphanOriginal ==
    \A v \in ViewType :
        \/ appState.views[v].originalImage = Null
        \/ appState.views[v].originalImage = appState.views[v].userUploadedImage
        \/ appState.views[v].originalImage = appState.views[v].generatedImage
        \/ appState.views[v].originalImage \in stored[v]

\* after an undo FRONT shows the image of a snapshot: neither the upload made
\* since nor a generated image
C26_Witness ==
    /\ appState.views["FRONT"].originalImage # Null
    /\ appState.views["FRONT"].originalImage # appState.views["FRONT"].userUploadedImage
    /\ appState.views["FRONT"].originalImage # appState.views["FRONT"].generatedImage
    /\ appState.views["FRONT"].originalImage \in stored["FRONT"]

\* C27 (SpecLoading): when every collaborator call eventually returns, a part
\* that is loading eventually stops loading, and an id in processingViews,
\* upscalingViews or upscalingParts is eventually no longer in it.  "Loading
\* leads to not loading" is written in its equivalent form "always eventually
\* not loading".
C27_LoadingClears ==
    /\ \A p \in PartType :
          /\ []<>(~appState.generatedSheets[p].isLoading)
          /\ []<>(~Includes(upscalingParts, p))
    /\ \A v \in ViewType :
          /\ []<>(~Includes(processingViews, v))
          /\ []<>(~Includes(upscalingViews, v))

\* calls were issued and have all returned: nothing is loading, and FACE holds
\* the image of a call that returned
C27_Witness ==
    /\ calls > 0
    /\ pending = <<>>
    /\ \A p \in PartType : ~appState.generatedSheets[p].isLoading
    /\ processingViews = <<>>
    /\ upscalingViews = <<>>
    /\ upscalingParts = <<>>
    /\ appState.generatedSheets["FACE"].imgUrl \in GenImgs

\* the views for which the step committed a newly generated image
PipelineCommitted ==
    {v \in ViewType : /\ appState'.views[v].generatedImage # Null
                      /\ appState'.views[v].generatedImage # appState.views[v].generatedImage}

\* C28 (SpecPipeline): when a step of handleGenerateViews commits a newly
\* generated image for a view, that view's undoStack then has the snapshot of
\* the view before the step on top and its redoStack is empty, and an undo
\* brings back the originalImage and generatedImage the view had.
C28_PipelineSnapshot ==
    [][\A i \in DOMAIN pending, r \in Results :
          pipelineViewResolved(i, r) =>
              \A v \in PipelineCommitted :
                  /\ Len(UndoStack(appState', v)) > 0
                  /\ Last(UndoStack(appState', v)) = Visible(appState, v)
                  /\ RedoStack(appState', v) = <<>>
                  /\ Visible(viewUndo(appState', v), v) = Visible(appState, v)]_vars

\* the record of view v without the crops of its parts
ViewCore(st, v) == [st.views[v] EXCEPT !.parts = INITIAL_VIEW_STATE.parts]

\* C29 (SpecRuns): the commit of a generate-sheets run, which produces no
\* image for any view, leaves the images, ledger and history of every view
\* as they are at that moment, so a change made to a view while the run was
\* in progress is still there after the commit.
C29_NoLostUpdate ==
    [][\A det \in Detections, raw \in RawDetections :
          sheetsAnalysisResolved(det, raw) =>
              \A v \in ViewType : ViewCore(appState', v) = ViewCore(appState, v)]_vars

\* the step is a ledger edit, append or removal, requested for entity e
LedgerEditOf(e) ==
    IF e \in ViewType
    THEN \/ \E id \in Timestamps \cup LaterStamps : handleViewModification(e, id)
         \/ \E id \in Timestamps \cup LaterStamps : handleDeleteViewModification(e, id)
    ELSE \/ \E id \in Timestamps \cup LaterStamps : handlePartModification(e, id)
         \/ \E id \in Timestamps \cup LaterStamps : handleDeleteModification(e, id)

\* C30 (SpecLedger): a ledger edit requested for an entity while a generation
\* for it is outstanding issues one new collaborator call for the entity and
\* leaves the outstanding one in place.
C30_SupersedingEdit ==
    [][\A e \in Entities :
          (LedgerEditOf(e) /\ Regenerations(e) # {}) =>
              /\ Len(NewCallsFor(e)) = 1
              /\ SubSeq(pending', 1, Len(pending)) = pending]_vars

\* C31 (SpecUndoUi): a step that undoes or redoes, from the buttons of a
\* part or from Undo All / Redo All, leaves the visible state and both
\* history stacks of every part whose isLoading is true as they were.
C31_NoUndoWhileLoading ==
    [][lastOp'.tag \in UndoRedoTags
       => \A p \in PartType :
            appState.generatedSheets[p].isLoading
                => /\ Visible(appState', p) = Visible(appState, p)
                   /\ UndoStack(appState', p) = UndoStack(appState, p)
                   /\ RedoStack(appState', p) = RedoStack(appState, p)]_vars

\* the crops generatePart would resolve for part p from the current project
\* with its front upload taken away
WithoutFrontUpload(p, balance) ==
    resolveSources([appState EXCEPT !.views["FRONT"].userUploadedImage = Null],
                   p, balance, isSingleViewMode)

\* C32 (SpecResolver): when generatePart runs for a part that has no
\* original crop, the raw front upload is among the images of its composite
\* call if and only if referenceBalance < 10 and the upload exists; no call
\* is issued (the list is empty) only when the fallback does not apply, and
\* a project without a front upload never resolves the upload image.
C32_FallbackAsymmetry ==
    /\ [][\A p \in PartType :
            (Recorded(p) /\ appState.originalParts[p] = Null)
            => LET fullUpload == appState.views["FRONT"].userUploadedImage
                   mine == SelectSeq(NewCalls, LAMBDA c : c.target = p)
               IN  /\ \A i \in DOMAIN mine :
                          (fullUpload # Null /\ fullUpload \in Range(mine[i].images))
                              <=> (referenceBalance < 10 /\ fullUpload # Null)
                   /\ mine = <<>> => ~(referenceBalance < 10 /\ fullUpload # Null)]_vars
    /\ [](\A p \in PartType, balance \in 0..10 :
            appState.originalParts[p] = Null
                => UploadImg \notin Range(WithoutFrontUpload(p, balance)))

\* at balance 10 a part without an original crop resolved no source at all,
\* though the front upload exists
C32_Witness ==
    /\ lastOp.tag = "short"
    /\ referenceBalance = 10
    /\ appState.views["FRONT"].userUploadedImage # Null
    /\ \E p \in lastOp.ids : appState.originalParts[p] = Null

\* C33 (SpecUpscale): when the upscale call of a part returns, from the
\* single or the batch handler, the part is no longer loading and its id is
\* no longer in upscalingParts; after a null result its imgUrl is the one it
\* had, after an image it is that image.
C33_UpscaleFailure ==
    [][\A i \in DOMAIN pending, r \in Results :
          upscalePartResolved(i, r) =>
              LET p == pending[i].target
              IN  /\ ~appState'.generatedSheets[p].isLoading
                  /\ ~Includes(upscalingParts', p)
                  /\ r = Null => appState'.generatedSheets[p].imgUrl
                                    = appState.generatedSheets[p].imgUrl
                  /\ r # Null => appState'.generatedSheets[p].imgUrl = r]_vars

\* every call returned and HAIR, upscaled by the batch only, still shows the
\* image recorded at the dispatch: its upscale returned null
C33_Witness ==
    /\ calls > 0
    /\ pending = <<>>
    /\ upscalingParts = <<>>
    /\ LET sheet == appState.generatedSheets["HAIR"]
       IN  /\ ~sheet.isLoading
           /\ sheet.imgUrl = SheetImg
           /\ sheet.history.redoStack = <<>>
           /\ Len(sheet.history.undoStack) > 1
           /\ Last(sheet.history.undoStack).imgUrl = SheetImg

\* C34 (SpecFull): in every state the undoStack and the redoStack of an
\* entity hold at most HISTORY_LIMIT snapshots together.
C34_StacksBounded ==
    \A e \in Entities :
        Len(UndoStack(appState, e)) + Len(RedoStack(appState, e)) <= HISTORY_LIMIT

\* a redo has just refilled an undoStack to HISTORY_LIMIT entries
C34_Witness ==
    /\ lastOp.tag = "redo"
    /\ \E e \in Entities :
          /\ Len(UndoStack(appState, e)) = HISTORY_LIMIT
          /\ RedoStack(appState, e) = <<>>

\* C35 (SpecInFlight): no view is in processingViews and in upscalingViews
\* at the same time.
C35_ViewSetsDisjoint ==
    \A v \in ViewType : ~(Includes(processingViews, v) /\ Includes(upscalingViews, v))

\* the step left every entity outside A as it was: record, history and
\* loading state
OthersUnchanged(A) ==
    \A e \in Entities \ A :
        /\ Slot(appState', e) = Slot(appState, e)
        /\ e \in ViewType =>
              /\ Includes(processingViews', e) = Includes(processingViews, e)
              /\ Includes(upscalingViews', e) = Includes(upscalingViews, e)

\* C36 (SpecFrame): an undo or a redo on one entity (or on a batch of parts)
\* and a step that records history change no view and no part sheet other
\* than the ones undone, redone or recorded: visible fields, both history
\* stacks and loading state stay, whether or not a call is in flight for
\* them.
C36_HistoryFrame ==
    [][/\ \A p \in PartType :
            (handlePartUndo(p) \/ handlePartRedo(p)) => OthersUnchanged({p})
       /\ (handleBatchUndoParts(visibleParts) \/ handleBatchRedoParts(visibleParts))
            => OthersUnchanged(Range(visibleParts))
       /\ \A v \in ViewType :
            (handleViewUndo(v) \/ handleViewRedo(v)) => OthersUnchanged({v})
       /\ (\E e \in Entities : Recorded(e))
            => OthersUnchanged({e \in Entities : Recorded(e)})]_vars

\* an entity was just undone while another one, with history of its own, has
\* a call in flight
C36_Witness ==
    /\ lastOp.tag = "undo"
    /\ \E e1, e2 \in Entities :
          /\ e1 # e2
          /\ ~HasPending(e1)
          /\ RedoStack(appState, e1) # <<>>
          /\ HasPending(e2)
          /\ Len(UndoStack(appState, e2)) > 1

\* C37 (SpecDetected): an undo or a redo on a view leaves the view's
\* userUploadedImage and its parts mapping as they were, also when the
\* pipeline's front normalization has reset the mapping before.
C37_ViewUndoFrame ==
    [][\A v \in ViewType :
          (handleViewUndo(v) \/ handleViewRedo(v))
          => /\ appState'.views[v].userUploadedImage = appState.views[v].userUploadedImage
             /\ appState'.views[v].parts = appState.views[v].parts]_vars

\* the front view, normalized by the pipeline (its parts reset, its upload
\* kept), was undone to the images it showed before
C37_Witness ==
    /\ lastOp.tag = "undo"
    /\ calls > 0
    /\ LET front == appState.views["FRONT"]
       IN  /\ front.parts = INITIAL_VIEW_STATE.parts
           /\ front.userUploadedImage = UploadImg
           /\ front.history.redoStack # <<>>
           /\ Last(front.history.redoStack).generatedImage \in GenImgs

\* C38 (SpecRemoval): no custom part is added in this specification, so a
\* removed id stays off the list of custom parts; in every state each custom
\* id that is a key of generatedSheets is the id of a listed custom part,
\* that is, the key of a removed part never comes back.
C38_RemovedStaysRemoved ==
    \A id \in CustomIds :
        id \in DOMAIN appState.generatedSheets => id \in ListedCustomIds

====
